---------------------------- MODULE Spec2Model ----------------------------
(***************************************************************************)
(* A model of backend/ocr/regions.py: the TTL cache of OCR responses       *)
(* (cache_ocr_response, get_cached_response, _cleanup_expired_cache,       *)
(* clear_cache, get_cache_stats) as a multi-threaded state machine, and    *)
(* the region detection pipeline (detect_regions and the functions it      *)
(* calls) as operators applied to bounded vendor responses.                *)
(***************************************************************************)
EXTENDS Integers, Sequences, FiniteSets, TLC

(***************************************************************************)
(* Bounds of the cache model.                                              *)
(***************************************************************************)
\* time.time() is modelled in whole seconds, 0..MaxTime.
MaxTime == 2
\* Number of writer/reader threads of the stress scenario.
NumWriters == 2

\* Threads that call the cache freely.
Threads == {1, 2}
\* Every thread of the model (the per-thread variables range over these).
Procs == 1..NumWriters
\* Non-empty cache keys; "" is the empty key.
Keys == {"k1", "k2"}
\* Cached response objects (never None).
Values == {"v1", "v2"}
\* The ttl arguments given to cache_ocr_response (seconds).
TTLs == {-1, 0, 1}

VARIABLES
    cache,        \* _cache: key -> [response, expiry_time]
    cache_lock,   \* _cache_lock: 0 when free, else the thread that holds it
    now,          \* the value time.time() returns
    pc,           \* pc[t]: where thread t stands in the function it runs
    frame,        \* frame[t]: the arguments and locals of that function
    ret,          \* what the call that the last step finished returned or raised (NoReturn: it finished none)
    lastPut,      \* history: key -> the pair stored by the latest put since the last clear
    lin,          \* history: the store of the sequential execution (whole operations, in release order)
    linRet,       \* history: what the sequential execution returned to that call
    stage,        \* stage[t]: thread t's progress in the stress scenario ("off" outside it)
    vision_response, \* the argument of detect_regions
    dpc,          \* where detect_regions stands ("off": it is not running)
    regions,      \* the local variable regions of detect_regions
    result,       \* what detect_regions returned or raised (Pending: nothing yet)
    tried,        \* history: the strategies detect_regions called, with what each gave
    input,        \* the arguments of a helper called on its own
    applied,      \* the helper that was called ("none": not yet)
    value         \* what that call gave

cacheVars == <<cache, cache_lock, now, pc, frame, ret, lastPut, lin, linRet, stage>>
detectVars == <<vision_response, dpc, regions, result, tried>>
pureVars == <<input, applied, value>>
vars == <<cacheVars, detectVars, pureVars>>

----------------------------------------------------------------------------
(***************************************************************************)
(* Dictionaries.                                                           *)
(***************************************************************************)
EmptyCache == [k \in {} |-> [response |-> "", expiry_time |-> 0]]

\* Mutant of Store: the new pair is written under every key of the store.
StoreOverwritingAll(c, k, v, e) ==
    [x \in DOMAIN c \cup {k} |-> [response |-> v, expiry_time |-> e]]

\* _cache[key] = (response, expiry_time)
Store(c, k, v, e) ==
    [x \in DOMAIN c \cup {k} |->
        IF x = k THEN [response |-> v, expiry_time |-> e] ELSE c[x]]

\* Mutant of Delete: a deletion empties the store.
DeleteWithNeighbours(c, ks) == IF ks = {} THEN c ELSE EmptyCache

\* del _cache[key] for every key of ks
Delete(c, ks) == [x \in DOMAIN c \ ks |-> c[x]]

IdleFrame ==
    [op |-> "none", key |-> "", response |-> "", expiry_time |-> 0]

\* A call that has just returned or raised: the function, the key (and, for
\* a rejected put, the ttl) it was given, its outcome, the clock value its
\* last step worked with and the store as that step found it.
NoReturn ==
    [op |-> "none", key |-> "", ttl |-> 0, kind |-> "none", response |-> "",
     total_entries |-> 0, expired_entries |-> 0, clock |-> 0, before |-> EmptyCache]
ReturnNone(k, clock, before) ==
    [NoReturn EXCEPT !.op = "get", !.key = k, !.kind = "None",
                     !.clock = clock, !.before = before]
ReturnResponse(k, v, clock, before) ==
    [NoReturn EXCEPT !.op = "get", !.key = k, !.kind = "response", !.response = v,
                     !.clock = clock, !.before = before]
RaiseValueError(k, ttl, clock, before) ==
    [NoReturn EXCEPT !.op = "put", !.key = k, !.ttl = ttl, !.kind = "ValueError",
                     !.clock = clock, !.before = before]
ReturnFromPut(k, clock, before) ==
    [NoReturn EXCEPT !.op = "put", !.key = k, !.kind = "ok",
                     !.clock = clock, !.before = before]
ReturnFromClear(clock, before) ==
    [NoReturn EXCEPT !.op = "clear", !.kind = "ok", !.clock = clock, !.before = before]
ReturnStats(total, expired, clock, before) ==
    [NoReturn EXCEPT !.op = "stats", !.kind = "stats",
                     !.total_entries = total, !.expired_entries = expired,
                     !.clock = clock, !.before = before]

\* What the caller sees of a finished call.
Outcome(r) == <<r.op, r.key, r.kind, r.response, r.total_entries, r.expired_entries>>

----------------------------------------------------------------------------
(***************************************************************************)
(* The pure parts of the cache functions.                                  *)
(***************************************************************************)
\* Mutant of InvalidPutArgs: the ttl check is missing.
InvalidPutArgsKeyOnly(k, ttl) == k = ""

\* cache_ocr_response: if not key ... if ttl < 0 ...
InvalidPutArgs(k, ttl) == k = "" \/ ttl < 0

\* Mutant of GetExpired: an entry counts as expired at its expiry time already.
GetExpiredInclusive(current_time, expiry_time) == current_time >= expiry_time

\* get_cached_response: if time.time() > expiry_time
GetExpired(current_time, expiry_time) == current_time > expiry_time

\* Mutant of ExpiredKeys: the sweep takes the entries at their expiry time too.
ExpiredKeysInclusive(c, current_time) ==
    {k \in DOMAIN c : current_time >= c[k].expiry_time}

\* Mutant of ExpiredKeys: the sweep stops after the first expired entry.
ExpiredKeysFirstOnly(c, current_time) ==
    LET expired == {k \in DOMAIN c : current_time > c[k].expiry_time}
    IN IF expired = {} THEN {} ELSE {CHOOSE k \in expired : TRUE}

\* _cleanup_expired_cache: the keys of the entries with current_time > expiry_time
ExpiredKeys(c, current_time) ==
    {k \in DOMAIN c : current_time > c[k].expiry_time}

\* Mutant of StatsExpired: entries at their expiry time are counted as expired.
StatsExpiredInclusive(c, current_time) ==
    Cardinality({k \in DOMAIN c : current_time >= c[k].expiry_time})

\* get_cache_stats: sum(1 for ... if current_time > expiry_time)
StatsExpired(c, current_time) ==
    Cardinality({k \in DOMAIN c : current_time > c[k].expiry_time})

\* Mutant of Cleared: only the expired entries are dropped.
ClearedExpiredOnly(c) == Delete(c, {k \in DOMAIN c : now > c[k].expiry_time})

\* clear_cache: _cache.clear()
Cleared(c) == Delete(c, DOMAIN c)

\* Mutant of LockAvailable: the lock excludes nobody.
LockNeverHeld(t) == TRUE

\* with _cache_lock: a thread enters when no thread holds the lock.
LockAvailable(t) == cache_lock = 0

(***************************************************************************)
(* The whole operations, as one sequential step each (the history `lin`).  *)
(***************************************************************************)
PutAtomic(c, k, v, e, sweep_time) ==
    LET c1 == Store(c, k, v, e)
    IN Delete(c1, {x \in DOMAIN c1 : sweep_time > c1[x].expiry_time})

GetAtomicStore(c, k, t_read) ==
    IF k \in DOMAIN c /\ t_read > c[k].expiry_time THEN Delete(c, {k}) ELSE c

GetAtomicRet(c, k, t_read) ==
    IF k \in DOMAIN c /\ ~(t_read > c[k].expiry_time)
    THEN ReturnResponse(k, c[k].response, t_read, c) ELSE ReturnNone(k, t_read, c)

StatsAtomicRet(c, t_read) ==
    ReturnStats(Cardinality(DOMAIN c),
                Cardinality({k \in DOMAIN c : t_read > c[k].expiry_time}), t_read, c)

----------------------------------------------------------------------------
(***************************************************************************)
(* cache_ocr_response(key, response, ttl)                                  *)
(***************************************************************************)
\* The call: the two argument checks, then expiry_time = time.time() + ttl,
\* read before the lock is requested.
CacheCall(t, k, v, ttl) ==
    /\ pc[t] = "idle"
    /\ IF InvalidPutArgs(k, ttl)
       THEN /\ ret' = RaiseValueError(k, ttl, now, cache)
            /\ linRet' = RaiseValueError(k, ttl, now, lin)
            /\ UNCHANGED <<pc, frame>>
       ELSE /\ pc' = [pc EXCEPT ![t] = "put_lock"]
            /\ frame' = [frame EXCEPT ![t] =
                    [IdleFrame EXCEPT !.op = "put", !.key = k, !.response = v,
                                      !.expiry_time = now + ttl]]
            /\ ret' = NoReturn
            /\ linRet' = NoReturn
    /\ UNCHANGED <<cache, cache_lock, now, lastPut, lin>>

\* with _cache_lock:  _cache[key] = (response, expiry_time)
CacheStore(t) ==
    /\ pc[t] = "put_lock"
    /\ LockAvailable(t)
    /\ cache_lock' = t
    /\ cache' = Store(cache, frame[t].key, frame[t].response, frame[t].expiry_time)
    /\ lastPut' = Store(lastPut, frame[t].key, frame[t].response, frame[t].expiry_time)
    /\ pc' = [pc EXCEPT ![t] = "cleanup"]
    /\ ret' = NoReturn
    /\ linRet' = NoReturn
    /\ UNCHANGED <<now, frame, lin>>

\* _cleanup_expired_cache: current_time = time.time(); expired_keys = [...];
\* for key in expired_keys: del _cache[key]; then the with block ends and
\* cache_ocr_response returns.
CleanupExpired(t) ==
    /\ pc[t] = "cleanup"
    /\ cache' = Delete(cache, ExpiredKeys(cache, now))
    /\ cache_lock' = 0
    /\ lin' = PutAtomic(lin, frame[t].key, frame[t].response, frame[t].expiry_time, now)
    /\ pc' = [pc EXCEPT ![t] = "idle"]
    /\ ret' = ReturnFromPut(frame[t].key, now, cache)
    /\ linRet' = ReturnFromPut(frame[t].key, now, lin)
    /\ frame' = [frame EXCEPT ![t] = IdleFrame]
    /\ UNCHANGED <<now, lastPut>>

(***************************************************************************)
(* get_cached_response(key)                                                *)
(***************************************************************************)
\* if not key: return None;  with _cache_lock: if key not in _cache: return
\* None;  response, expiry_time = _cache[key]
GetLookup(t, k) ==
    /\ pc[t] = "idle"
    /\ IF k = ""
       THEN /\ ret' = ReturnNone(k, now, cache)
            /\ linRet' = ReturnNone(k, now, lin)
            /\ UNCHANGED <<pc, frame, cache_lock, lin>>
       ELSE /\ LockAvailable(t)
            /\ IF k \notin DOMAIN cache
               THEN /\ ret' = ReturnNone(k, now, cache)
                    /\ linRet' = GetAtomicRet(lin, k, now)
                    /\ lin' = GetAtomicStore(lin, k, now)
                    /\ UNCHANGED <<pc, frame, cache_lock>>
               ELSE /\ cache_lock' = t
                    /\ pc' = [pc EXCEPT ![t] = "get_check"]
                    /\ frame' = [frame EXCEPT ![t] =
                            [IdleFrame EXCEPT !.op = "get", !.key = k,
                                              !.response = cache[k].response,
                                              !.expiry_time = cache[k].expiry_time]]
                    /\ ret' = NoReturn
                    /\ linRet' = NoReturn
                    /\ UNCHANGED lin
    /\ UNCHANGED <<cache, now, lastPut>>

\* if time.time() > expiry_time: del _cache[key]; return None
\* return response
GetCheck(t) ==
    /\ pc[t] = "get_check"
    /\ IF GetExpired(now, frame[t].expiry_time)
       THEN /\ cache' = Delete(cache, {frame[t].key})
            /\ ret' = ReturnNone(frame[t].key, now, cache)
       ELSE /\ cache' = cache
            /\ ret' = ReturnResponse(frame[t].key, frame[t].response, now, cache)
    /\ linRet' = GetAtomicRet(lin, frame[t].key, now)
    /\ lin' = GetAtomicStore(lin, frame[t].key, now)
    /\ cache_lock' = 0
    /\ pc' = [pc EXCEPT ![t] = "idle"]
    /\ frame' = [frame EXCEPT ![t] = IdleFrame]
    /\ UNCHANGED <<now, lastPut>>

(***************************************************************************)
(* clear_cache()                                                           *)
(***************************************************************************)
\* with _cache_lock: _cache.clear()
ClearCache(t) ==
    /\ pc[t] = "idle"
    /\ LockAvailable(t)
    /\ cache' = Cleared(cache)
    /\ lastPut' = EmptyCache
    /\ lin' = EmptyCache
    /\ ret' = ReturnFromClear(now, cache)
    /\ linRet' = ReturnFromClear(now, lin)
    /\ UNCHANGED <<cache_lock, now, pc, frame>>

(***************************************************************************)
(* get_cache_stats()                                                       *)
(***************************************************************************)
\* with _cache_lock: current_time = time.time(); total = len(_cache);
\* expired = sum(...); return {...}
GetCacheStats(t) ==
    /\ pc[t] = "idle"
    /\ LockAvailable(t)
    /\ ret' = ReturnStats(Cardinality(DOMAIN cache), StatsExpired(cache, now), now, cache)
    /\ linRet' = StatsAtomicRet(lin, now)
    /\ UNCHANGED <<cache, cache_lock, now, pc, frame, lastPut, lin>>

(***************************************************************************)
(* The clock: time.time() never goes back.                                 *)
(***************************************************************************)
Tick ==
    /\ now < MaxTime
    /\ now' = now + 1
    /\ ret' = NoReturn
    /\ linRet' = NoReturn
    /\ UNCHANGED <<cache, cache_lock, pc, frame, lastPut, lin>>

----------------------------------------------------------------------------
(***************************************************************************)
(* Spec: threads call the four cache functions in any order.               *)
(***************************************************************************)
InitCache ==
    /\ cache = EmptyCache
    /\ cache_lock = 0
    /\ now = 0
    /\ pc = [t \in Procs |-> "idle"]
    /\ frame = [t \in Procs |-> IdleFrame]
    /\ ret = NoReturn
    /\ lastPut = EmptyCache
    /\ lin = EmptyCache
    /\ linRet = NoReturn

\* detect_regions is not running.
DetectOff ==
    /\ vision_response = [present |-> FALSE]
    /\ dpc = "off"
    /\ regions = <<>>
    /\ result = [kind |-> "pending"]
    /\ tried = <<>>

\* No helper is called on its own.
PureOff ==
    /\ input = [kind |-> "none"]
    /\ applied = "none"
    /\ value = <<>>

Init ==
    /\ InitCache
    /\ DetectOff
    /\ PureOff
    /\ stage = [t \in Procs |-> "off"]

\* A step of the cache alone.
CacheOnly == UNCHANGED <<stage, detectVars, pureVars>>

Next ==
    \/ Tick /\ CacheOnly
    \/ \E t \in Threads :
        \/ \E k \in Keys \cup {""}, v \in Values, ttl \in TTLs :
              CacheCall(t, k, v, ttl) /\ CacheOnly
        \/ CacheStore(t) /\ CacheOnly
        \/ CleanupExpired(t) /\ CacheOnly
        \/ \E k \in Keys \cup {""} : GetLookup(t, k) /\ CacheOnly
        \/ GetCheck(t) /\ CacheOnly
        \/ ClearCache(t) /\ CacheOnly
        \/ GetCacheStats(t) /\ CacheOnly

Spec == Init /\ [][Next]_vars

----------------------------------------------------------------------------
(***************************************************************************)
(* SpecStress: the stress scenario.  Every thread puts its own value under *)
(* its own key; once every put has returned, the threads get those keys.   *)
(***************************************************************************)
StressKey(t) == "k" \o ToString(t)
StressValue(t) == "v" \o ToString(t)
StressKeys == {StressKey(t) : t \in Procs}
\* The ttl a writer passes.
StressTTLs == {0, 1}

AllPutsReturned ==
    \A u \in Procs : stage[u] \in {"put", "get"} /\ (stage[u] = "put" => pc[u] = "idle")

StressPut(t, ttl) ==
    /\ stage[t] = "start"
    /\ CacheCall(t, StressKey(t), StressValue(t), ttl)
    /\ stage' = [stage EXCEPT ![t] = "put"]

StressGet(t, k) ==
    /\ stage[t] = "put"
    /\ AllPutsReturned
    /\ GetLookup(t, k)
    /\ stage' = [stage EXCEPT ![t] = "get"]

InitStress ==
    /\ InitCache
    /\ DetectOff
    /\ PureOff
    /\ stage = [t \in Procs |-> "start"]

NextStress ==
    \/ Tick /\ CacheOnly
    \/ \E t \in Procs :
        \/ \E ttl \in StressTTLs : StressPut(t, ttl) /\ UNCHANGED <<detectVars, pureVars>>
        \/ CacheStore(t) /\ CacheOnly
        \/ CleanupExpired(t) /\ CacheOnly
        \/ \E k \in StressKeys : StressGet(t, k) /\ UNCHANGED <<detectVars, pureVars>>
        \/ GetCheck(t) /\ CacheOnly

SpecStress == InitStress /\ [][NextStress]_vars

----------------------------------------------------------------------------
(***************************************************************************)
(* Text.  A word is a string without whitespace and a text is the sequence *)
(* of its words: the text Python holds is the words joined by single       *)
(* spaces.  A regular expression of the source is decided on the words: a  *)
(* table lists the words of the vocabulary in which the expression (or the *)
(* part of it on one side of its whitespace) matches, and the operators    *)
(* below combine the tables the way the whitespace of the expression       *)
(* demands.                                                                *)
(***************************************************************************)
Words ==
    {"Joe's", "Diner", "Burger", "Fries", "$8.99", "$0.72", "$9.71", "3.50",
     "Tax", "Tip", "Total", "Subtotal", "Thank", "you", "2x", "12", "A",
     "555-123-4567", "www.joes.com", "Main", "St", "have", "a", "nice", "day",
     "USD", "$", "Change", "visit", "us", "service", "charge", "card", "#42",
     "@", "x", "please", "come", "again", "Grand", "delivery", "fee",
     "Balance", "Tender", "gratuity"}

\* ''.join([symbol.text for symbol in word.symbols])
RECURSIVE JoinSymbols(_)
JoinSymbols(symbols) ==
    IF symbols = <<>> THEN "" ELSE Head(symbols) \o JoinSymbols(Tail(symbols))

\* f"{a} {b}" on texts.
JoinTexts(a, b) == a \o b

RECURSIVE CharCount(_)
\* len(text.replace(' ', ''))
CharCount(text) ==
    IF text = <<>> THEN 0 ELSE Len(Head(text)) + CharCount(Tail(text))

\* len(text.strip())
TextLen(text) == IF text = <<>> THEN 0 ELSE CharCount(text) + Len(text) - 1

\* re.search of an expression without whitespace: it matches inside a word.
AnyWord(text, table) == \E i \in DOMAIN text : text[i] \in table

\* re.search of an expression "A\s+B" ("A\s?B", "A\s*B"): A ends a word and
\* B starts the next one.
AdjacentWords(text, ends, starts) ==
    \E i \in 1..(Len(text) - 1) : text[i] \in ends /\ text[i + 1] \in starts

\* price_patterns: the words one of the three patterns matches in; the
\* words \$ ends, \d+\.\d{2} starts and ends, (?:USD|usd) starts.
PriceWords ==
    [in_word |-> {"$8.99", "$0.72", "$9.71", "3.50"},
     dollar_at_end |-> {"$"},
     amount_at_start |-> {"3.50"},
     amount_at_end |-> {"$8.99", "$0.72", "$9.71", "3.50"},
     usd_at_start |-> {"USD"}]

\* TextRegion.has_price_pattern, on the region's text.
has_price_pattern(text) ==
    \/ AnyWord(text, PriceWords.in_word)
    \/ AdjacentWords(text, PriceWords.dollar_at_end, PriceWords.amount_at_start)
    \/ AdjacentWords(text, PriceWords.amount_at_end, PriceWords.usd_at_start)

\* footer_keywords (re.I): the words a pattern of the list of
\* _detect_footer_boundary matches in, those a pattern of the shorter list
\* of filter_item_regions matches in, and the words that end with \bgrand,
\* start with total\b, and so on for the patterns with whitespace.
FooterWords ==
    [in_word |-> {"Total", "Subtotal", "Change", "Balance", "Tender"},
     short_in_word |-> {"Total", "Subtotal", "Balance", "Tender"},
     grand_at_end |-> {"Grand"},
     total_at_start |-> {"Total"},
     thank_at_end |-> {"Thank"},
     you_at_start |-> {"you"},
     have_at_end |-> {"have"},
     a |-> {"A", "a"},
     day_at_start |-> {"day"},
     visit_at_end |-> {"visit"},
     us_at_start |-> {"us"},
     card_at_end |-> {"card"},
     hash_at_start |-> {"#42"}]

\* \bhave\s+a\s+.*\s+day\b: "have", "a", at least one more word, then "day".
HaveADay(text) ==
    \E i \in 1..(Len(text) - 3) :
        /\ text[i] \in FooterWords.have_at_end
        /\ text[i + 1] \in FooterWords.a
        /\ \E j \in (i + 3)..Len(text) : text[j] \in FooterWords.day_at_start

\* Some footer_keywords pattern of _detect_footer_boundary matches.
footer_keywords(text) ==
    \/ AnyWord(text, FooterWords.in_word)
    \/ AdjacentWords(text, FooterWords.grand_at_end, FooterWords.total_at_start)
    \/ AdjacentWords(text, FooterWords.thank_at_end, FooterWords.you_at_start)
    \/ HaveADay(text)
    \/ AdjacentWords(text, FooterWords.visit_at_end, FooterWords.us_at_start)
    \/ AdjacentWords(text, FooterWords.card_at_end, FooterWords.hash_at_start)

\* Some footer_keywords pattern of filter_item_regions matches.
filter_footer_keywords(text) ==
    \/ AnyWord(text, FooterWords.short_in_word)
    \/ AdjacentWords(text, FooterWords.grand_at_end, FooterWords.total_at_start)
    \/ AdjacentWords(text, FooterWords.thank_at_end, FooterWords.you_at_start)
    \/ HaveADay(text)
    \/ AdjacentWords(text, FooterWords.card_at_end, FooterWords.hash_at_start)

\* tax_tip_patterns (re.I).
TaxTipWords ==
    [in_word |-> {"Tax", "Tip", "gratuity"},
     service_at_end |-> {"service"},
     charge_at_start |-> {"charge"},
     delivery_at_end |-> {"delivery"},
     fee_at_start |-> {"fee"}]

is_tax_tip_line(text) ==
    \/ AnyWord(text, TaxTipWords.in_word)
    \/ AdjacentWords(text, TaxTipWords.service_at_end, TaxTipWords.charge_at_start)
    \/ AdjacentWords(text, TaxTipWords.delivery_at_end, TaxTipWords.fee_at_start)

\* quantity_patterns (re.I): the words a pattern matches in; the words a
\* digit ends, x\b starts, the words of digits only, the words a letter
\* starts, the words @ ends and \$?\d+\.\d{2} starts.
QuantityWords ==
    [in_word |-> {"2x"},
     digit_at_end |-> {"$8.99", "$0.72", "$9.71", "3.50", "12", "555-123-4567", "#42"},
     x_at_start |-> {"x"},
     all_digits |-> {"12"},
     letter_at_start |->
        {"Joe's", "Diner", "Burger", "Fries", "Tax", "Tip", "Total", "Subtotal",
         "Thank", "you", "A", "www.joes.com", "Main", "St", "have", "a", "nice",
         "day", "USD", "Change", "visit", "us", "service", "charge", "card", "x",
         "please", "come", "again", "Grand", "delivery", "fee", "Balance",
         "Tender", "gratuity"},
     at_sign_at_end |-> {"@"},
     amount_at_start |-> {"$8.99", "$0.72", "$9.71", "3.50"}]

quantity_patterns(text) ==
    \/ AnyWord(text, QuantityWords.in_word)
    \/ AdjacentWords(text, QuantityWords.digit_at_end, QuantityWords.x_at_start)
    \/ /\ Len(text) >= 2
       /\ text[1] \in QuantityWords.all_digits
       /\ text[2] \in QuantityWords.letter_at_start
    \/ AdjacentWords(text, QuantityWords.at_sign_at_end, QuantityWords.amount_at_start)

\* sum(1 for c in word if c.isalpha())
LetterCount ==
    [w \in Words |->
        CASE w \in {"$8.99", "$0.72", "$9.71", "3.50", "12", "555-123-4567",
                    "$", "#42", "@"} -> 0
          [] w \in {"2x", "A", "a", "x"} -> 1
          [] w = "Joe's" -> 4
          [] w = "www.joes.com" -> 10
          [] OTHER -> Len(w)]

RECURSIVE Letters(_)
Letters(text) ==
    IF text = <<>> THEN 0 ELSE LetterCount[Head(text)] + Letters(Tail(text))

is_likely_item_line(text) ==
    IF quantity_patterns(text) THEN TRUE
    ELSE IF TextLen(text) < 3 \/ TextLen(text) > 50 THEN FALSE
    ELSE CharCount(text) > 0 /\ Letters(text) * 10 > 4 * CharCount(text)

\* header_patterns and footer_patterns of filter_item_regions (re.I), and
\* its test for numbers only: the words with a phone number or a URL in
\* them; the words ^\d+, [A-Z][a-z]+ and St of the address pattern; the
\* words of the footer phrases (no word boundaries); the words made of
\* digits, '.', ',' and '$' only, and the words with a digit.
FilterWords ==
    [header_in_word |-> {"555-123-4567", "www.joes.com"},
     all_digits |-> {"12"},
     street_name |->
        {"Diner", "Burger", "Fries", "Tax", "Tip", "Total", "Subtotal", "Thank",
         "you", "Main", "St", "have", "nice", "day", "USD", "Change", "visit",
         "us", "service", "charge", "card", "please", "come", "again", "Grand",
         "delivery", "fee", "Balance", "Tender", "gratuity"},
     st_at_start |-> {"St"},
     thank_at_end |-> {"Thank"},
     you_at_start |-> {"you"},
     please_at_end |-> {"please"},
     come |-> {"come"},
     again_at_start |-> {"again"},
     visit_at_end |-> {"visit"},
     us_at_start |-> {"USD", "us"},
     digit_punct_only |-> {"$8.99", "$0.72", "$9.71", "3.50", "12", "$"},
     has_digit |-> {"$8.99", "$0.72", "$9.71", "3.50", "2x", "12", "555-123-4567", "#42"}]

header_patterns(text) ==
    \/ AnyWord(text, FilterWords.header_in_word)
    \/ /\ Len(text) >= 3
       /\ text[1] \in FilterWords.all_digits
       /\ text[2] \in FilterWords.street_name
       /\ text[3] \in FilterWords.st_at_start

footer_patterns(text) ==
    \/ AdjacentWords(text, FilterWords.thank_at_end, FilterWords.you_at_start)
    \/ \E i \in 1..(Len(text) - 2) :
          /\ text[i] \in FilterWords.please_at_end
          /\ text[i + 1] \in FilterWords.come
          /\ text[i + 2] \in FilterWords.again_at_start
    \/ AdjacentWords(text, FilterWords.visit_at_end, FilterWords.us_at_start)

\* text.replace(' ', '').replace('.', '').replace(',', '').replace('$', '').isdigit()
only_numbers(text) ==
    /\ \A i \in DOMAIN text : text[i] \in FilterWords.digit_punct_only
    /\ AnyWord(text, FilterWords.has_digit)

----------------------------------------------------------------------------
(***************************************************************************)
(* Geometry.  A normalized coordinate (a float in [0, 1]) is held in       *)
(* thousandths, an area in millionths and a confidence in thousandths;     *)
(* the page sizes of the inputs (1 and 100 pixels) divide Scale, so every  *)
(* quotient below is exact.                                                *)
(***************************************************************************)
Scale == 1000

Min2(a, b) == IF a < b THEN a ELSE b
Max2(a, b) == IF a > b THEN a ELSE b
SetMin(S) == CHOOSE m \in S : \A o \in S : m <= o
SetMax(S) == CHOOSE m \in S : \A o \in S : m >= o

BoundingBox(x_min, y_min, x_max, y_max) ==
    [x_min |-> x_min, y_min |-> y_min, x_max |-> x_max, y_max |-> y_max]

width(b) == b.x_max - b.x_min
height(b) == b.y_max - b.y_min
\* Twice center_y (two thousandths have an exact sum, not an exact half).
center_y2(b) == b.y_min + b.y_max
area(b) == width(b) * height(b)

TextRegion(text, bounding_box, confidence) ==
    [text |-> text, bounding_box |-> bounding_box, confidence |-> confidence]

\* confidence: float = 1.0
DefaultConfidence == Scale

\* What a function hands back: a value, or an exception.
Returns(v) == [raised |-> FALSE, value |-> v]
Raises == [raised |-> TRUE, value |-> <<>>]

XCoords(vertices) == {vertices[i].x : i \in {j \in DOMAIN vertices : vertices[j].has_x}}
YCoords(vertices) == {vertices[i].y : i \in {j \in DOMAIN vertices : vertices[j].has_y}}

\* Mutant of Clamp: the upper limit only.
ClampAbove(v) == Min2(Scale, v)

\* max(0.0, min(1.0, v))
Clamp(v) == Max2(0, Min2(Scale, v))

\* Mutant of normalize_bounding_box: every vertex must have both coordinates.
NormalizeNeedsAllCoordinates(vertices, image_size) ==
    IF vertices = <<>> THEN Raises
    ELSE IF image_size[1] <= 0 \/ image_size[2] <= 0 THEN Raises
    ELSE IF \E i \in DOMAIN vertices : ~vertices[i].has_x \/ ~vertices[i].has_y THEN Raises
    ELSE Returns(BoundingBox(
            Clamp((SetMin(XCoords(vertices)) * Scale) \div image_size[1]),
            Clamp((SetMin(YCoords(vertices)) * Scale) \div image_size[2]),
            Clamp((SetMax(XCoords(vertices)) * Scale) \div image_size[1]),
            Clamp((SetMax(YCoords(vertices)) * Scale) \div image_size[2])))

normalize_bounding_box(vertices, image_size) ==
    IF vertices = <<>> THEN Raises
    ELSE IF image_size[1] <= 0 \/ image_size[2] <= 0 THEN Raises
    ELSE IF XCoords(vertices) = {} \/ YCoords(vertices) = {} THEN Raises
    ELSE Returns(BoundingBox(
            Clamp((SetMin(XCoords(vertices)) * Scale) \div image_size[1]),
            Clamp((SetMin(YCoords(vertices)) * Scale) \div image_size[2]),
            Clamp((SetMax(XCoords(vertices)) * Scale) \div image_size[1]),
            Clamp((SetMax(YCoords(vertices)) * Scale) \div image_size[2])))

\* sorted(regions, key=lambda r: r.bounding_box.center_y): a stable sort.
RECURSIVE InsertByCenterY(_, _)
InsertByCenterY(sorted, r) ==
    IF sorted = <<>> THEN <<r>>
    ELSE IF center_y2(r.bounding_box) < center_y2(Head(sorted).bounding_box)
         THEN <<r>> \o sorted
         ELSE <<Head(sorted)>> \o InsertByCenterY(Tail(sorted), r)

RECURSIVE SortByCenterY(_)
SortByCenterY(region_list) ==
    IF region_list = <<>> THEN <<>>
    ELSE InsertByCenterY(SortByCenterY(SubSeq(region_list, 1, Len(region_list) - 1)),
                         region_list[Len(region_list)])

----------------------------------------------------------------------------
(***************************************************************************)
(* The structured tree: the first page, its blocks, their paragraphs.      *)
(***************************************************************************)
\* (page.width if hasattr(page, 'width') else 1, page.height if ... else 1)
\* Mutant of PageImageSize: a missing dimension counts as 0.
PageImageSizeZeroDefault(page) ==
    <<IF page.has_width THEN page.width ELSE 0,
      IF page.has_height THEN page.height ELSE 0>>

PageImageSize(page) ==
    <<IF page.has_width THEN page.width ELSE 1,
      IF page.has_height THEN page.height ELSE 1>>

\* for block in page.blocks: for paragraph in block.paragraphs
RECURSIVE PageParagraphs(_)
PageParagraphs(blocks) ==
    IF blocks = <<>> THEN <<>>
    ELSE Head(blocks).paragraphs \o PageParagraphs(Tail(blocks))

\* ' '.join(words).strip(), every word the join of its symbols.
ParagraphText(paragraph) ==
    [i \in 1..Len(paragraph.words) |-> JoinSymbols(paragraph.words[i])]

ParagraphRegion(paragraph, image_size) ==
    TextRegion(ParagraphText(paragraph),
               normalize_bounding_box(paragraph.vertices, image_size).value,
               IF paragraph.has_confidence THEN paragraph.confidence
               ELSE DefaultConfidence)

\* The paragraph loop of detect_smart_regions: a paragraph with text must
\* have a bounding_box that normalizes.
RECURSIVE SmartParagraphs(_, _)
SmartParagraphs(paragraphs, image_size) ==
    IF paragraphs = <<>> THEN Returns(<<>>)
    ELSE LET p == Head(paragraphs)
             rest == SmartParagraphs(Tail(paragraphs), image_size)
         IN  IF ParagraphText(p) = <<>> THEN rest
             ELSE IF ~p.has_bounding_box THEN Raises
             ELSE IF normalize_bounding_box(p.vertices, image_size).raised THEN Raises
             ELSE IF rest.raised THEN Raises
             ELSE Returns(<<ParagraphRegion(p, image_size)>> \o rest.value)

\* The paragraph loop of _extract_regions_from_full_annotation: a paragraph
\* without text or without bounding_box is passed over.
RECURSIVE PlainParagraphs(_, _)
PlainParagraphs(paragraphs, image_size) ==
    IF paragraphs = <<>> THEN Returns(<<>>)
    ELSE LET p == Head(paragraphs)
             rest == PlainParagraphs(Tail(paragraphs), image_size)
         IN  IF ParagraphText(p) = <<>> \/ ~p.has_bounding_box THEN rest
             ELSE IF normalize_bounding_box(p.vertices, image_size).raised THEN Raises
             ELSE IF rest.raised THEN Raises
             ELSE Returns(<<ParagraphRegion(p, image_size)>> \o rest.value)

extract_regions_from_full_annotation(full_text_annotation) ==
    IF full_text_annotation.pages = <<>> THEN Returns(<<>>)
    ELSE LET page == full_text_annotation.pages[1]
         IN  PlainParagraphs(PageParagraphs(page.blocks), PageImageSize(page))

----------------------------------------------------------------------------
(***************************************************************************)
(* Smart detection: boundaries, classification, grouping.                  *)
(***************************************************************************)
\* Thresholds of detect_smart_regions and its helpers, in thousandths
\* (areas in millionths).
DefaultHeaderBoundary == 150
HeaderBoundaryCap == 250
DefaultFooterBoundary == 850
FooterBoundaryCap == 750
MinArea == 3000
MaxArea == 500000
MergeDistance == 50

PriceIndexes(paragraphs) ==
    {i \in DOMAIN paragraphs : has_price_pattern(paragraphs[i].text)}

\* Mutant of detect_header_boundary: no cap at 0.25.
HeaderBoundaryUncapped(paragraphs) ==
    IF PriceIndexes(paragraphs) = {} THEN DefaultHeaderBoundary
    ELSE LET i == SetMin(PriceIndexes(paragraphs))
         IN  IF i > 1 THEN paragraphs[i - 1].bounding_box.y_max
             ELSE paragraphs[i].bounding_box.y_min

detect_header_boundary(paragraphs) ==
    LET header_boundary ==
            IF PriceIndexes(paragraphs) = {} THEN DefaultHeaderBoundary
            ELSE LET i == SetMin(PriceIndexes(paragraphs))
                 IN  IF i > 1 THEN paragraphs[i - 1].bounding_box.y_max
                     ELSE paragraphs[i].bounding_box.y_min
    IN  Min2(header_boundary, HeaderBoundaryCap)

FooterIndexes(paragraphs) ==
    {i \in DOMAIN paragraphs : footer_keywords(paragraphs[i].text)}

\* Mutant of detect_footer_boundary: no floor at 0.75.
FooterBoundaryUnfloored(paragraphs) ==
    IF FooterIndexes(paragraphs) = {} THEN DefaultFooterBoundary
    ELSE paragraphs[SetMax(FooterIndexes(paragraphs))].bounding_box.y_min

detect_footer_boundary(paragraphs) ==
    IF FooterIndexes(paragraphs) = {} THEN DefaultFooterBoundary
    ELSE Max2(paragraphs[SetMax(FooterIndexes(paragraphs))].bounding_box.y_min,
              FooterBoundaryCap)

\* Merge of two neighbours: description + price.
MergedRegion(current, next_region) ==
    TextRegion(JoinTexts(current.text, next_region.text),
               BoundingBox(Min2(current.bounding_box.x_min, next_region.bounding_box.x_min),
                           current.bounding_box.y_min,
                           Max2(current.bounding_box.x_max, next_region.bounding_box.x_max),
                           next_region.bounding_box.y_max),
               (current.confidence + next_region.confidence) \div 2)

\* Mutant of ShouldMerge: a distance of exactly 0.05 merges too.
ShouldMergeAtDistance(current, next_region) ==
    /\ next_region.bounding_box.y_min - current.bounding_box.y_max <= MergeDistance
    /\ has_price_pattern(current.text) # has_price_pattern(next_region.text)

ShouldMerge(current, next_region) ==
    /\ next_region.bounding_box.y_min - current.bounding_box.y_max < MergeDistance
    /\ has_price_pattern(current.text) # has_price_pattern(next_region.text)

RECURSIVE GroupFrom(_, _)
\* The loop of _group_multiline_items from index i on (skip_next is the
\* step to i + 2).
GroupFrom(region_list, i) ==
    IF i > Len(region_list) THEN <<>>
    ELSE IF i < Len(region_list) /\ ShouldMerge(region_list[i], region_list[i + 1])
         THEN <<MergedRegion(region_list[i], region_list[i + 1])>> \o GroupFrom(region_list, i + 2)
         ELSE <<region_list[i]>> \o GroupFrom(region_list, i + 1)

group_multiline_items(region_list, image_size) ==
    IF Len(region_list) < 2 THEN region_list ELSE GroupFrom(region_list, 1)

\* Mutant of InSmartBody: the area limits themselves are excluded too.
InSmartBodyAreaInclusive(region, header_end_y, footer_start_y) ==
    /\ ~(center_y2(region.bounding_box) < 2 * header_end_y)
    /\ ~(center_y2(region.bounding_box) > 2 * footer_start_y)
    /\ ~(area(region.bounding_box) <= MinArea \/ area(region.bounding_box) >= MaxArea)
    /\ ~(TextLen(region.text) <= 1)

\* Mutant of InSmartBody: no footer test.
InSmartBodyWithFooter(region, header_end_y, footer_start_y) ==
    /\ ~(center_y2(region.bounding_box) < 2 * header_end_y)
    /\ ~(area(region.bounding_box) < MinArea \/ area(region.bounding_box) > MaxArea)
    /\ ~(TextLen(region.text) <= 1)

\* The checks a paragraph passes before it is classified.
InSmartBody(region, header_end_y, footer_start_y) ==
    /\ ~(center_y2(region.bounding_box) < 2 * header_end_y)
    /\ ~(center_y2(region.bounding_box) > 2 * footer_start_y)
    /\ ~(area(region.bounding_box) < MinArea \/ area(region.bounding_box) > MaxArea)
    /\ ~(TextLen(region.text) <= 1)

\* Mutant of ClassifyParagraphs: the tax/tip regions come first.
ClassifyTaxTipFirst(all_paragraphs, image_size) ==
    LET header_end_y == detect_header_boundary(all_paragraphs)
        footer_start_y == detect_footer_boundary(all_paragraphs)
        IsTaxTip(region) ==
            /\ InSmartBody(region, header_end_y, footer_start_y)
            /\ is_tax_tip_line(region.text)
        IsItem(region) ==
            /\ InSmartBody(region, header_end_y, footer_start_y)
            /\ ~is_tax_tip_line(region.text)
            /\ (has_price_pattern(region.text) \/ is_likely_item_line(region.text))
    IN  SelectSeq(all_paragraphs, IsTaxTip)
            \o group_multiline_items(SelectSeq(all_paragraphs, IsItem), image_size)

\* Mutant of ClassifyParagraphs: the item test runs before the tax/tip test.
ClassifyItemsBeforeTaxTip(all_paragraphs, image_size) ==
    LET header_end_y == detect_header_boundary(all_paragraphs)
        footer_start_y == detect_footer_boundary(all_paragraphs)
        IsItem(region) ==
            /\ InSmartBody(region, header_end_y, footer_start_y)
            /\ (has_price_pattern(region.text) \/ is_likely_item_line(region.text))
        IsTaxTip(region) ==
            /\ InSmartBody(region, header_end_y, footer_start_y)
            /\ ~(has_price_pattern(region.text) \/ is_likely_item_line(region.text))
            /\ is_tax_tip_line(region.text)
    IN  group_multiline_items(SelectSeq(all_paragraphs, IsItem), image_size)
            \o SelectSeq(all_paragraphs, IsTaxTip)

\* The regions detect_smart_regions makes of sorted paragraphs.
ClassifyParagraphs(all_paragraphs, image_size) ==
    LET header_end_y == detect_header_boundary(all_paragraphs)
        footer_start_y == detect_footer_boundary(all_paragraphs)
        IsTaxTip(region) ==
            /\ InSmartBody(region, header_end_y, footer_start_y)
            /\ is_tax_tip_line(region.text)
        IsItem(region) ==
            /\ InSmartBody(region, header_end_y, footer_start_y)
            /\ ~is_tax_tip_line(region.text)
            /\ (has_price_pattern(region.text) \/ is_likely_item_line(region.text))
        item_regions == SelectSeq(all_paragraphs, IsItem)
        tax_tip_regions == SelectSeq(all_paragraphs, IsTaxTip)
    IN  group_multiline_items(item_regions, image_size) \o tax_tip_regions

detect_smart_regions(response) ==
    IF ~response.has_full_text_annotation THEN Raises
    ELSE IF response.full_text_annotation.pages = <<>> THEN Raises
    ELSE LET page == response.full_text_annotation.pages[1]
             image_size == PageImageSize(page)
             all_paragraphs == SmartParagraphs(PageParagraphs(page.blocks), image_size)
         IN  IF all_paragraphs.raised THEN Raises
             ELSE Returns(ClassifyParagraphs(SortByCenterY(all_paragraphs.value), image_size))

----------------------------------------------------------------------------
(***************************************************************************)
(* Flat extraction: the tokens after the first annotation, grouped into    *)
(* lines of 10 pixels.                                                     *)
(***************************************************************************)
\* Pixels of one line bucket.
LineTolerance == 10

\* int(a / b) for b > 0: rounds toward zero.
TruncDiv(a, b) == IF a >= 0 THEN a \div b ELSE -((-a) \div b)

RECURSIVE SumY(_)
\* sum(y_coords), y_coords the y of the vertices that have one.
SumY(vertices) ==
    IF vertices = <<>> THEN 0
    ELSE (IF Head(vertices).has_y THEN Head(vertices).y ELSE 0) + SumY(Tail(vertices))

CountY(vertices) == Cardinality({i \in DOMAIN vertices : vertices[i].has_y})

\* int(center_y / 10) * 10 with center_y = sum(y_coords) / len(y_coords)
LineKey(vertices) ==
    TruncDiv(SumY(vertices), CountY(vertices) * LineTolerance) * LineTolerance

\* The annotations after the first that reach a line.
HasLine(annotation) ==
    /\ annotation.has_bounding_poly
    /\ annotation.vertices # <<>>
    /\ CountY(annotation.vertices) > 0

RECURSIVE InsertByMinX(_, _)
\* line_items.sort(key=min x): stable.
InsertByMinX(sorted, item) ==
    IF sorted = <<>> THEN <<item>>
    ELSE IF SetMin(XCoords(item.vertices)) < SetMin(XCoords(Head(sorted).vertices))
         THEN <<item>> \o sorted
         ELSE <<Head(sorted)>> \o InsertByMinX(Tail(sorted), item)

RECURSIVE SortByMinX(_)
SortByMinX(items) ==
    IF items = <<>> THEN <<>>
    ELSE InsertByMinX(SortByMinX(SubSeq(items, 1, Len(items) - 1)), items[Len(items)])

\* ' '.join([item[0] for item in line_items])
LineText(items) == [i \in DOMAIN items |-> items[i].description]

RECURSIVE LineVertices(_)
\* [v for item in line_items for v in item[1]]
LineVertices(items) ==
    IF items = <<>> THEN <<>> ELSE Head(items).vertices \o LineVertices(Tail(items))

\* One line of the lines dictionary as a region; the sort raises when an
\* item has no x to sort by.
LineRegion(line_items, image_size) ==
    IF \E i \in DOMAIN line_items : XCoords(line_items[i].vertices) = {} THEN Raises
    ELSE LET bbox == normalize_bounding_box(LineVertices(SortByMinX(line_items)), image_size)
         IN  IF bbox.raised THEN Raises
             ELSE Returns(TextRegion(LineText(SortByMinX(line_items)), bbox.value,
                                     DefaultConfidence))

RECURSIVE LineRegions(_, _, _)
\* for line_key in sorted(lines.keys())
LineRegions(tokens, keys, image_size) ==
    IF keys = {} THEN Returns(<<>>)
    ELSE LET line_key == SetMin(keys)
             InLine(annotation) == LineKey(annotation.vertices) = line_key
             region == LineRegion(SelectSeq(tokens, InLine), image_size)
             rest == LineRegions(tokens, keys \ {line_key}, image_size)
         IN  IF region.raised \/ rest.raised THEN Raises
             ELSE Returns(<<region.value>> \o rest.value)

extract_regions_from_text_annotations(text_annotations) ==
    IF Len(text_annotations) < 2 THEN Returns(<<>>)
    ELSE LET first == text_annotations[1]
         IN  IF ~first.has_bounding_poly THEN Raises
             ELSE IF XCoords(first.vertices) = {} \/ YCoords(first.vertices) = {} THEN Raises
             ELSE LET image_size == <<SetMax(XCoords(first.vertices)),
                                      SetMax(YCoords(first.vertices))>>
                      tokens == SelectSeq(Tail(text_annotations), HasLine)
                      keys == {LineKey(tokens[i].vertices) : i \in DOMAIN tokens}
                  IN  LineRegions(tokens, keys, image_size)

----------------------------------------------------------------------------
(***************************************************************************)
(* The filter fallback.                                                    *)
(***************************************************************************)
\* Thresholds of filter_item_regions, in thousandths.
FilterDefaultHeader == 100
FilterDefaultFooter == 900
FilterHeaderFloor == 50
FilterHeaderMargin == 20
FilterFooterCap == 950
MinHeight == 8
MinTextLen == 3

\* header_end_y: from the first region with a price.
filter_header_end_y(sorted_regions) ==
    IF PriceIndexes(sorted_regions) = {} THEN FilterDefaultHeader
    ELSE Max2(FilterHeaderFloor,
              sorted_regions[SetMin(PriceIndexes(sorted_regions))].bounding_box.y_min
                  - FilterHeaderMargin)

RECURSIVE FooterScan(_, _, _)
\* The loop over reversed(sorted_regions) from index i down, footer_start_y
\* being what the loop has assigned so far: it stops once that is < 0.9.
FooterScan(sorted_regions, i, footer_start_y) ==
    IF i = 0 THEN footer_start_y
    ELSE LET assigned ==
                 IF filter_footer_keywords(sorted_regions[i].text)
                 THEN Min2(FilterFooterCap, sorted_regions[i].bounding_box.y_min)
                 ELSE footer_start_y
         IN  IF assigned < FilterDefaultFooter THEN assigned
             ELSE FooterScan(sorted_regions, i - 1, assigned)

filter_footer_start_y(sorted_regions) ==
    FooterScan(sorted_regions, Len(sorted_regions), FilterDefaultFooter)

\* The checks of the filter loop, in the order of the code.
FilterKeeps(region, header_end_y, footer_start_y) ==
    /\ ~(center_y2(region.bounding_box) < 2 * header_end_y)
    /\ ~(center_y2(region.bounding_box) > 2 * footer_start_y)
    /\ ~(area(region.bounding_box) < MinArea)
    /\ ~(area(region.bounding_box) > MaxArea)
    /\ ~(TextLen(region.text) <= 1)
    /\ ~(height(region.bounding_box) < MinHeight)
    /\ ~header_patterns(region.text)
    /\ ~footer_patterns(region.text)
    /\ ~(only_numbers(region.text) /\ ~has_price_pattern(region.text))
    /\ ~(TextLen(region.text) < MinTextLen /\ ~has_price_pattern(region.text))

\* Mutant of filter_item_regions: the regions stay in the caller's order.
FilterWithoutSorting(region_list) ==
    IF region_list = <<>> THEN <<>>
    ELSE LET sorted_regions == SortByCenterY(region_list)
             header_end_y == filter_header_end_y(sorted_regions)
             footer_start_y == filter_footer_start_y(sorted_regions)
             Keeps(region) == FilterKeeps(region, header_end_y, footer_start_y)
         IN  SelectSeq(region_list, Keeps)

filter_item_regions(region_list) ==
    IF region_list = <<>> THEN <<>>
    ELSE LET sorted_regions == SortByCenterY(region_list)
             header_end_y == filter_header_end_y(sorted_regions)
             footer_start_y == filter_footer_start_y(sorted_regions)
             Keeps(region) == FilterKeeps(region, header_end_y, footer_start_y)
         IN  SelectSeq(sorted_regions, Keeps)

----------------------------------------------------------------------------
(***************************************************************************)
(* The vendor responses detect_regions is given.                           *)
(***************************************************************************)
\* Paragraphs of a page (bounded).
MaxParagraphs == 2

Vertex(x, y) == [has_x |-> TRUE, x |-> x, has_y |-> TRUE, y |-> y]
\* The four corners of a rectangle, in pixels.
Rect(x0, y0, x1, y1) == <<Vertex(x0, y0), Vertex(x1, y0), Vertex(x1, y1), Vertex(x0, y1)>>

\* A paragraph: its words (each the sequence of its symbols), the vertices
\* of its bounding_box, its confidence.
Paragraph(words, vertices, confidence) ==
    [words |-> words, has_bounding_box |-> TRUE, vertices |-> vertices,
     has_confidence |-> TRUE, confidence |-> confidence]

\* The paragraphs of a small receipt: header, item description, item
\* price, tax line, footer.
ReceiptParagraphs ==
    <<Paragraph(<< <<"Joe", "'s">>, <<"Diner">> >>, Rect(10, 1, 90, 3), 1000),
      Paragraph(<< <<"Burger">> >>, Rect(10, 40, 60, 42), 800),
      Paragraph(<< <<"$", "8.99">> >>, Rect(70, 43, 90, 45), 1000),
      Paragraph(<< <<"Tax">>, <<"$0.72">> >>, Rect(10, 50, 90, 52), 1000),
      [Paragraph(<< <<"Thank">>, <<"you">> >>, Rect(10, 94, 90, 96), 1000)
         EXCEPT !.has_confidence = FALSE]>>

\* Those, a paragraph without bounding_box, one whose bounding_box has no
\* vertices, and one without words.
ParagraphCatalogue ==
    {ReceiptParagraphs[i] : i \in DOMAIN ReceiptParagraphs}
    \cup
    {[Paragraph(<< <<"Fries">> >>, <<>>, 1000) EXCEPT !.has_bounding_box = FALSE],
     Paragraph(<< <<"Fries">> >>, <<>>, 600),
     Paragraph(<<>>, <<>>, 1000)}

\* At most MaxParagraphs paragraphs of the catalogue, in any order.
ParagraphLists == UNION {[1..n -> ParagraphCatalogue] : n \in 0..MaxParagraphs}

\* The first paragraph in a block of its own, the others in a second block.
Blocks(paragraphs) ==
    IF Len(paragraphs) <= 1 THEN <<[paragraphs |-> paragraphs]>>
    ELSE <<[paragraphs |-> <<Head(paragraphs)>>], [paragraphs |-> Tail(paragraphs)]>>

\* Pages with a declared size, and pages without width and height.
PageSizes == {<<100, 100>>, <<0, 100>>}

Pages ==
    {[has_width |-> TRUE, width |-> s[1], has_height |-> TRUE, height |-> s[2],
      blocks |-> Blocks(ps)] : s \in PageSizes, ps \in ParagraphLists}
    \cup
    {[has_width |-> FALSE, width |-> 0, has_height |-> FALSE, height |-> 0,
      blocks |-> Blocks(ps)] : ps \in ParagraphLists}

NoFullTextAnnotation == [pages |-> <<>>]

FullTextAnnotations == {NoFullTextAnnotation} \cup {[pages |-> <<p>>] : p \in Pages}

Annotation(description, vertices) ==
    [description |-> description, has_bounding_poly |-> TRUE, vertices |-> vertices]

\* The first annotation: the full text, over the whole image.
WholeImage == Annotation("", Rect(0, 0, 100, 100))

AnnotationLists ==
    {<<>>,
     <<WholeImage>>,
     <<WholeImage, Annotation("$8.99", Rect(70, 41, 90, 45)),
                   Annotation("Burger", Rect(10, 40, 40, 44))>>,
     <<WholeImage, Annotation("Thank", Rect(10, 94, 40, 98)),
                   Annotation("you", Rect(50, 94, 90, 98))>>,
     <<WholeImage, [Annotation("Fries", <<>>) EXCEPT !.has_bounding_poly = FALSE]>>,
     <<WholeImage, Annotation("Fries", <<[has_x |-> FALSE, x |-> 0, has_y |-> TRUE, y |-> 40]>>)>>,
     <<[WholeImage EXCEPT !.has_bounding_poly = FALSE],
       Annotation("Burger", Rect(10, 40, 40, 44))>>}

\* vision_response = None
NoneResponse ==
    [present |-> FALSE, has_full_text_annotation |-> FALSE,
     full_text_annotation |-> NoFullTextAnnotation, text_annotations |-> <<>>]

\* The whole receipt as a structured response: the header in a block, the
\* three body paragraphs in a second, the footer in a third.
JoesDinerReceipt ==
    [present |-> TRUE, has_full_text_annotation |-> TRUE,
     full_text_annotation |->
        [pages |-> <<[has_width |-> TRUE, width |-> 100, has_height |-> TRUE, height |-> 100,
                      blocks |-> <<[paragraphs |-> SubSeq(ReceiptParagraphs, 1, 1)],
                                   [paragraphs |-> SubSeq(ReceiptParagraphs, 2, 4)],
                                   [paragraphs |-> SubSeq(ReceiptParagraphs, 5, 5)]>>]>>],
     text_annotations |-> <<>>]

Responses ==
    {NoneResponse, JoesDinerReceipt}
    \cup
    {[present |-> TRUE, has_full_text_annotation |-> FALSE,
      full_text_annotation |-> NoFullTextAnnotation, text_annotations |-> a] :
        a \in AnnotationLists}
    \cup
    {[present |-> TRUE, has_full_text_annotation |-> TRUE,
      full_text_annotation |-> f, text_annotations |-> a] :
        f \in FullTextAnnotations, a \in AnnotationLists}

----------------------------------------------------------------------------
(***************************************************************************)
(* detect_regions, one step per strategy of the cascade.                   *)
(***************************************************************************)
Pending == [kind |-> "pending", regions |-> <<>>, error |-> ""]
Returned(list) == [kind |-> "returned", regions |-> list, error |-> ""]
RaisedValueError(message) == [kind |-> "raised", regions |-> <<>>, error |-> message]

InvalidInput == "vision_response cannot be None"
NoRegionsFound == "No text regions found in vision_response"

\* One attempt of the cascade, as the history keeps it.
Attempt(strategy, out) ==
    [strategy |-> strategy, raised |-> out.raised, regions |-> out.value]

\* if regions: (a strategy that returned, and returned a non-empty list)
Productive(out) == ~out.raised /\ out.value # <<>>

SmartResultFiltered(smart_regions) == filter_item_regions(smart_regions)

\* return regions
SmartResult(smart_regions) == smart_regions

StructuredNeverApplies(response) == FALSE

\* hasattr(vision_response, 'full_text_annotation') and vision_response.full_text_annotation
StructuredApplies(response) == response.has_full_text_annotation

FlatAppliesOnlyWithoutTree(response, found) ==
    ~response.has_full_text_annotation /\ response.text_annotations # <<>>

FlatAppliesWhateverRegions(response, found) == response.text_annotations # <<>>

\* not regions and hasattr(vision_response, 'text_annotations') and vision_response.text_annotations
FlatApplies(response, found) == found = <<>> /\ response.text_annotations # <<>>

NoRegionsNever(found) == FALSE

\* if not regions:
NoRegions(found) == found = <<>>

DetectCall ==
    /\ dpc = "call"
    /\ IF ~vision_response.present
       THEN result' = RaisedValueError(InvalidInput) /\ dpc' = "done"
       ELSE dpc' = "smart" /\ UNCHANGED result
    /\ UNCHANGED <<vision_response, regions, tried>>

TrySmart ==
    /\ dpc = "smart"
    /\ LET out == detect_smart_regions(vision_response)
       IN  /\ tried' = Append(tried, Attempt("smart", out))
           /\ IF Productive(out)
              THEN /\ regions' = out.value
                   /\ result' = Returned(SmartResult(out.value))
                   /\ dpc' = "done"
              ELSE /\ regions' = <<>>
                   /\ dpc' = "structured"
                   /\ UNCHANGED result
    /\ UNCHANGED vision_response

TryStructured ==
    /\ dpc = "structured"
    /\ IF StructuredApplies(vision_response)
       THEN LET out == extract_regions_from_full_annotation(vision_response.full_text_annotation)
            IN  /\ tried' = Append(tried, Attempt("structured", out))
                /\ regions' = IF out.raised THEN regions ELSE out.value
       ELSE UNCHANGED <<tried, regions>>
    /\ dpc' = "flat"
    /\ UNCHANGED <<vision_response, result>>

TryFlat ==
    /\ dpc = "flat"
    /\ IF FlatApplies(vision_response, regions)
       THEN LET out == extract_regions_from_text_annotations(vision_response.text_annotations)
            IN  /\ tried' = Append(tried, Attempt("flat", out))
                /\ regions' = IF out.raised THEN regions ELSE out.value
       ELSE UNCHANGED <<tried, regions>>
    /\ dpc' = "finish"
    /\ UNCHANGED <<vision_response, result>>

Finish ==
    /\ dpc = "finish"
    /\ result' = IF NoRegions(regions) THEN RaisedValueError(NoRegionsFound)
                 ELSE Returned(filter_item_regions(regions))
    /\ dpc' = "done"
    /\ UNCHANGED <<vision_response, regions, tried>>

InitDetect ==
    /\ InitCache
    /\ PureOff
    /\ stage = [t \in Procs |-> "off"]
    /\ vision_response \in Responses
    /\ dpc = "call"
    /\ regions = <<>>
    /\ result = Pending
    /\ tried = <<>>

NextDetect ==
    \/ DetectCall /\ UNCHANGED <<cacheVars, pureVars>>
    \/ TrySmart /\ UNCHANGED <<cacheVars, pureVars>>
    \/ TryStructured /\ UNCHANGED <<cacheVars, pureVars>>
    \/ TryFlat /\ UNCHANGED <<cacheVars, pureVars>>
    \/ Finish /\ UNCHANGED <<cacheVars, pureVars>>

SpecDetect == InitDetect /\ [][NextDetect]_vars

----------------------------------------------------------------------------
(***************************************************************************)
(* The helpers applied on their own: one call of normalize_bounding_box,   *)
(* of the two boundary detectors and the filter's boundary computation,    *)
(* of _group_multiline_items, of the classification of                     *)
(* detect_smart_regions, or of filter_item_regions.                        *)
(***************************************************************************)
\* Bounds: regions in a list, vertices of a bounding polygon, tokens after
\* the first annotation.
MaxRegions == 3
MaxVertices == 2
MaxTokens == 3

\* Regions as the extraction produces them (thousandths of the image): a
\* tall header block with a price beside it, items and prices, a tax line,
\* footer lines, regions of area exactly 0.003 and 0.5, noise.
RegionCatalogue ==
    {TextRegion(<<"Joe's", "Diner">>, BoundingBox(100, 10, 900, 240), 1000),
     TextRegion(<<"Burger">>, BoundingBox(100, 400, 600, 420), 800),
     TextRegion(<<"$8.99">>, BoundingBox(700, 430, 900, 450), 1000),
     TextRegion(<<"Fries">>, BoundingBox(100, 460, 600, 480), 600),
     TextRegion(<<"Fries">>, BoundingBox(100, 400, 600, 600), 600),
     TextRegion(<<"3.50">>, BoundingBox(700, 130, 900, 150), 1000),
     TextRegion(<<"Tax", "$0.72">>, BoundingBox(100, 530, 900, 550), 1000),
     TextRegion(<<"Total", "$9.71">>, BoundingBox(100, 600, 900, 620), 1000),
     TextRegion(<<"Thank", "you">>, BoundingBox(100, 960, 900, 980), DefaultConfidence),
     TextRegion(<<"Fries">>, BoundingBox(0, 0, 3, 1000), 1000),
     TextRegion(<<"Burger", "$8.99">>, BoundingBox(0, 0, 500, 1000), 1000),
     TextRegion(<<"A">>, BoundingBox(100, 440, 600, 460), 1000),
     TextRegion(<<"#42">>, BoundingBox(100, 520, 600, 540), 1000)}

\* The arguments of one call: a list of regions; the vertices of a
\* bounding polygon (coordinates in pixels, some left of or above the
\* image, some beyond it, some missing) with an image size; or a flat
\* annotation list, the full text over a 100x100 image followed by tokens
\* whose vertical centers are -15, -5, 5, 15 and 20 pixels.
PureInputs ==
    LET TokenCatalogue ==
            {Annotation("Tax", Rect(10, -18, 40, -12)),
             Annotation("Burger", Rect(10, -8, 40, -2)),
             Annotation("Fries", Rect(50, 2, 90, 8)),
             Annotation("$8.99", Rect(60, 12, 90, 18)),
             Annotation("Tip", Rect(10, 16, 40, 24)),
             [Annotation("you", <<>>) EXCEPT !.has_bounding_poly = FALSE]}
        coords == {-10, 50, 150}
        VertexCatalogue ==
            {Vertex(x, y) : x \in coords, y \in coords}
            \cup {[Vertex(50, y) EXCEPT !.has_x = FALSE] : y \in coords}
            \cup {[Vertex(x, 50) EXCEPT !.has_y = FALSE] : x \in coords}
            \cup {[Vertex(50, 50) EXCEPT !.has_x = FALSE, !.has_y = FALSE]}
        ImageSizes == {<<100, 100>>, <<1, 1>>, <<50, 200>>, <<0, 100>>, <<100, -1>>}
    IN  {[kind |-> "regions", region_list |-> l] :
            l \in UNION {[1..n -> RegionCatalogue] : n \in 0..MaxRegions}}
        \cup
        {[kind |-> "vertices", vertices |-> v, image_size |-> s] :
            v \in UNION {[1..n -> VertexCatalogue] : n \in 0..MaxVertices},
            s \in ImageSizes}
        \cup
        {[kind |-> "annotations",
          text_annotations |-> <<Annotation("Total", Rect(0, 0, 100, 100))>> \o l] :
            l \in UNION {[1..n -> TokenCatalogue] : n \in 0..MaxTokens}}

InitPure ==
    /\ InitCache
    /\ DetectOff
    /\ stage = [t \in Procs |-> "off"]
    /\ input \in PureInputs
    /\ applied = "none"
    /\ value = <<>>

\* bbox = normalize_bounding_box(vertices, image_size)
ApplyNormalize ==
    /\ applied = "none"
    /\ input.kind = "vertices"
    /\ applied' = "normalize_bounding_box"
    /\ value' = normalize_bounding_box(input.vertices, input.image_size)
    /\ UNCHANGED input

\* The three boundary computations, on the list sorted by center_y.
ApplyBoundaries ==
    /\ applied = "none"
    /\ input.kind = "regions"
    /\ applied' = "boundaries"
    /\ value' = LET sorted_regions == SortByCenterY(input.region_list)
                IN  [header_end_y |-> detect_header_boundary(sorted_regions),
                     footer_start_y |-> detect_footer_boundary(sorted_regions),
                     filter_header_end_y |-> filter_header_end_y(sorted_regions),
                     filter_footer_start_y |-> filter_footer_start_y(sorted_regions)]
    /\ UNCHANGED input

\* _group_multiline_items(item_regions, image_size): detect_smart_regions
\* passes it a list sorted by center_y.
ApplyGroup ==
    /\ applied = "none"
    /\ input.kind = "regions"
    /\ applied' = "group_multiline_items"
    /\ value' = group_multiline_items(SortByCenterY(input.region_list), <<1000, 1000>>)
    /\ UNCHANGED input

\* detect_smart_regions from the sort of all_paragraphs on (lines 165-211).
ApplyClassify ==
    /\ applied = "none"
    /\ input.kind = "regions"
    /\ applied' = "detect_smart_regions"
    /\ value' = ClassifyParagraphs(SortByCenterY(input.region_list), <<1000, 1000>>)
    /\ UNCHANGED input

\* filter_item_regions(regions)
ApplyFilter ==
    /\ applied = "none"
    /\ input.kind = "regions"
    /\ applied' = "filter_item_regions"
    /\ value' = filter_item_regions(input.region_list)
    /\ UNCHANGED input

\* _extract_regions_from_text_annotations(vision_response.text_annotations)
ApplyFlat ==
    /\ applied = "none"
    /\ input.kind = "annotations"
    /\ applied' = "extract_regions_from_text_annotations"
    /\ value' = extract_regions_from_text_annotations(input.text_annotations)
    /\ UNCHANGED input

NextPure ==
    \/ ApplyNormalize /\ UNCHANGED <<cacheVars, detectVars>>
    \/ ApplyBoundaries /\ UNCHANGED <<cacheVars, detectVars>>
    \/ ApplyGroup /\ UNCHANGED <<cacheVars, detectVars>>
    \/ ApplyClassify /\ UNCHANGED <<cacheVars, detectVars>>
    \/ ApplyFilter /\ UNCHANGED <<cacheVars, detectVars>>
    \/ ApplyFlat /\ UNCHANGED <<cacheVars, detectVars>>

SpecPure == InitPure /\ [][NextPure]_vars

----------------------------------------------------------------------------
(***************************************************************************)
(* Properties of the cache.                                                *)
(***************************************************************************)

\* C1: a get of key k returns the response of the latest put of k since the
\* last clear exactly when the clock the get works with is <= that put's
\* expiry (its call time + ttl); otherwise (no such put, the empty key, or
\* the clock past the expiry) it returns None, and an entry it finds expired
\* is gone from the store when it returns.
GetReturnsLatestUnexpiredPut ==
    ret.op = "get" =>
        /\ IF ret.key \in DOMAIN lastPut /\ ret.clock <= lastPut[ret.key].expiry_time
           THEN ret.kind = "response" /\ ret.response = lastPut[ret.key].response
           ELSE ret.kind = "None"
        /\ (ret.key \in DOMAIN ret.before /\ ret.clock > ret.before[ret.key].expiry_time)
              => (ret.kind = "None" /\ ret.key \notin DOMAIN cache)

\* A get has found the entry of its key expired and removed it.
GetEvictedExpiredEntry ==
    /\ ret.op = "get" /\ ret.kind = "None"
    /\ ret.key \in DOMAIN ret.before
    /\ ret.key \notin DOMAIN cache

\* C2: the concurrent execution is the sequential execution of the whole
\* operations in the order they leave the lock: whenever the lock is free
\* the store equals the sequential store (no put is lost), every call returns
\* what it returns sequentially, and every entry of the store is the
\* (response, expiry) pair of one put, the latest of its key.
CacheLinearizable ==
    /\ cache_lock = 0 => cache = lin
    /\ Outcome(ret) = Outcome(linRet)
    /\ \A k \in DOMAIN cache : k \in DOMAIN lastPut /\ cache[k] = lastPut[k]

\* A put waits for the lock while a get of the same key is between reading
\* the entry and checking its expiry.
PutWaitsWhileGetChecks ==
    \E t, u \in Threads :
        /\ pc[t] = "get_check" /\ pc[u] = "put_lock"
        /\ frame[t].key = frame[u].key
        /\ frame[t].response # frame[u].response

\* The response written by the thread whose key is k, in the stress scenario.
StressValueOf(k) == StressValue(CHOOSE t \in Procs : StressKey(t) = k)

\* C3 as stated: in the stress scenario every reader obtains the value
\* written under the key it reads, never another value and never None.
StressReadersAlwaysHit ==
    ret.op = "get" => (ret.kind = "response" /\ ret.response = StressValueOf(ret.key))

\* C3 as amended: in the stress scenario a reader obtains the value written
\* under the key it reads as long as the clock it works with is <= the
\* expiry of that key's put (call time + ttl), and None once the clock is
\* past it; it never obtains the value of another key.
StressReadersHitUntilExpiry ==
    ret.op = "get" =>
        /\ ret.key \in DOMAIN lastPut
        /\ IF ret.clock <= lastPut[ret.key].expiry_time
           THEN ret.kind = "response" /\ ret.response = StressValueOf(ret.key)
           ELSE ret.kind = "None"

\* Every writer has written, every reader has read, and the last reader got a value.
StressAllReadersDone ==
    /\ \A t \in Procs : stage[t] = "get" /\ pc[t] = "idle"
    /\ ret.op = "get" /\ ret.kind = "response"

\* C4: a put with an empty key or a negative ttl raises ValueError and goes
\* no further (a put that goes on to the lock has a non-empty key and a
\* ttl >= 0), and the step that raises leaves the store, the lock and every
\* thread as they were.
InvalidPutRejectedStoreUntouched ==
    [][ /\ \A t \in Procs :
            (pc[t] = "idle" /\ pc'[t] = "put_lock")
                => (frame'[t].key # "" /\ frame'[t].expiry_time - now >= 0)
        /\ ret'.kind = "ValueError"
            => /\ ret'.key = "" \/ ret'.ttl < 0
               /\ cache' = cache /\ cache_lock' = cache_lock /\ pc' = pc
               /\ lastPut' = lastPut
      ]_cacheVars

\* A put with a negative ttl has been rejected while the store held an entry.
NegativeTtlRejected ==
    /\ ret.kind = "ValueError" /\ ret.key # "" /\ ret.ttl < 0
    /\ ret.key \in DOMAIN cache

\* C5: a put holds the lock from its insert to the end of its sweep, and when
\* it returns the store holds no entry, under any key, whose expiry is
\* earlier than the clock its sweep read; the number of entries has dropped
\* by the number of entries that were expired at that clock.
PutSweepsWholeStore ==
    /\ \A t \in Procs : pc[t] = "cleanup" => cache_lock = t
    /\ (ret.op = "put" /\ ret.kind = "ok") =>
        /\ \A k \in DOMAIN cache : ~(cache[k].expiry_time < ret.clock)
        /\ Cardinality(DOMAIN cache) =
              Cardinality(DOMAIN ret.before)
                - Cardinality({k \in DOMAIN ret.before : ret.before[k].expiry_time < ret.clock})

\* A put has swept an expired entry stored under another key.
PutSweptOtherKey ==
    /\ ret.op = "put" /\ ret.kind = "ok"
    /\ \E k \in DOMAIN ret.before : k # ret.key /\ k \notin DOMAIN cache

\* C6: when clear returns the store is empty, and as long as no put has
\* stored since, every get returns None and stats reports 0 entries, 0 expired.
ClearEmptiesStore ==
    /\ ret.op = "clear" => cache = EmptyCache
    /\ (lastPut = EmptyCache /\ ret.op = "get") => ret.kind = "None"
    /\ (lastPut = EmptyCache /\ ret.op = "stats")
          => (ret.total_entries = 0 /\ ret.expired_entries = 0)

\* A clear has removed an entry that had not expired.
ClearRemovedLiveEntry ==
    /\ ret.op = "clear"
    /\ \E k \in DOMAIN ret.before : ret.before[k].expiry_time >= ret.clock

\* C7: stats returns the number of entries of the store and the number of
\* those whose expiry is before the clock it read, with
\* 0 <= expired_entries <= total_entries, and leaves the store as it found it.
StatsIsPureRead ==
    ret.op = "stats" =>
        /\ ret.total_entries = Cardinality(DOMAIN cache)
        /\ ret.expired_entries =
              Cardinality({k \in DOMAIN cache : cache[k].expiry_time < ret.clock})
        /\ 0 <= ret.expired_entries /\ ret.expired_entries <= ret.total_entries
        /\ cache = ret.before

\* stats has counted an expired entry that is still in the store.
StatsSawExpiredEntry ==
    /\ ret.op = "stats" /\ ret.expired_entries > 0
    /\ Cardinality(DOMAIN cache) = ret.total_entries

----------------------------------------------------------------------------
(***************************************************************************)
(* Properties of the cascade of detect_regions.                            *)
(***************************************************************************)
\* An attempt of the history that gave a non-empty list.
Gave(attempt) == ~attempt.raised /\ attempt.regions # <<>>

\* The strategies detect_regions has a call for, given the response.
Applicable(response) ==
    {"smart"}
    \cup (IF StructuredApplies(response) THEN {"structured"} ELSE {})
    \cup (IF response.text_annotations # <<>> THEN {"flat"} ELSE {})

\* What a strategy gives for the response.
StrategyOutcome(strategy, response) ==
    CASE strategy = "smart" -> detect_smart_regions(response)
      [] strategy = "structured" ->
            extract_regions_from_full_annotation(response.full_text_annotation)
      [] strategy = "flat" ->
            extract_regions_from_text_annotations(response.text_annotations)

\* C8: detect_regions calls the strategies in the order smart, structured,
\* flat, smart first; it calls a later strategy only when every strategy it
\* called before raised or gave an empty list; and when it returns a list,
\* the regions it made the list from are those of the first strategy, in
\* that order, that gave a non-empty list.
CascadeInOrder ==
    /\ LET StrategyOrder == <<"smart", "structured", "flat">>
           Rank(strategy) == CHOOSE i \in DOMAIN StrategyOrder : StrategyOrder[i] = strategy
       IN  \A i, j \in DOMAIN tried :
               i < j => Rank(tried[i].strategy) < Rank(tried[j].strategy)
    /\ tried # <<>> => tried[1].strategy = "smart"
    /\ \A j \in DOMAIN tried : \A i \in 1..(j - 1) : ~Gave(tried[i])
    /\ (dpc = "done" /\ result.kind = "returned") =>
          \E i \in DOMAIN tried :
              /\ Gave(tried[i])
              /\ \A k \in 1..(i - 1) : ~Gave(tried[k])
              /\ regions = tried[i].regions
              /\ tried[i] = Attempt(tried[i].strategy,
                                    StrategyOutcome(tried[i].strategy, vision_response))

\* detect_regions returned regions of the flat extractor, which it called
\* third, after smart detection raised and structured extraction gave none.
FlatUsedAfterTwoFailures ==
    /\ dpc = "done"
    /\ result.kind = "returned"
    /\ Len(tried) = 3
    /\ tried[1].raised
    /\ ~tried[2].raised /\ tried[2].regions = <<>>
    /\ Gave(tried[3])
    /\ result.regions # <<>>

\* C9 (as stated): whenever detect_regions returns a list, the list is
\* filter_item_regions of the regions that survived the cascade, smart
\* detection's regions included.
ReturnedListIsFilterOutput ==
    (dpc = "done" /\ result.kind = "returned") =>
        result.regions = filter_item_regions(regions)

\* C9 (amended): a list detect_regions returns is the list smart detection
\* gave, as it is, when smart detection gave a non-empty one; otherwise it
\* is filter_item_regions of the regions of the first fallback strategy
\* that gave a non-empty list.
ReturnedListFilteredUnlessSmart ==
    (dpc = "done" /\ result.kind = "returned") =>
        /\ tried # <<>>
        /\ IF Gave(tried[1])
           THEN /\ Len(tried) = 1
                /\ result.regions = tried[1].regions
           ELSE /\ Gave(tried[Len(tried)])
                /\ tried[Len(tried)].strategy # "smart"
                /\ result.regions = filter_item_regions(tried[Len(tried)].regions)

\* detect_regions returned smart detection's list, and the filter fallback
\* would have made another list of it.
SmartListReturnedUnfiltered ==
    /\ dpc = "done"
    /\ result.kind = "returned"
    /\ Len(tried) = 1
    /\ Gave(tried[1])
    /\ result.regions = tried[1].regions
    /\ filter_item_regions(tried[1].regions) # tried[1].regions

\* C10: for a response that is not None, detect_regions raises the "no text
\* regions found" error exactly when every strategy that applies to the
\* response raised or gave an empty list; it never raises it after a
\* strategy it called gave a region.
NoRegionsFoundIffNothingGave ==
    (dpc = "done" /\ vision_response.present) =>
        /\ (result.kind = "raised" /\ result.error = NoRegionsFound)
              <=> (\A s \in Applicable(vision_response) :
                      ~Productive(StrategyOutcome(s, vision_response)))
        /\ result.kind = "raised" =>
              /\ result.error = NoRegionsFound
              /\ \A i \in DOMAIN tried : ~Gave(tried[i])

\* All three strategies were called, none gave a region, and detect_regions
\* raised.
AllThreeFailedAndRaised ==
    /\ dpc = "done"
    /\ vision_response.present
    /\ Len(tried) = 3
    /\ \A i \in DOMAIN tried : ~Gave(tried[i])
    /\ \E i \in DOMAIN tried : tried[i].raised
    /\ result = RaisedValueError(NoRegionsFound)

\* C11: detect_regions raises nothing but the invalid-input error, for a
\* response that is None and before any strategy is called, and the "no
\* text regions found" error.  A strategy that raised counts as having
\* given nothing and the cascade goes on: after smart detection raised,
\* structured extraction is called when the response has a structured
\* tree; when no strategy called gave a region, flat extraction is called
\* when the response has annotations; and the call still ends in a list or
\* in the "no text regions found" error.
StrategyFailuresAreCaught ==
    /\ result.kind = "raised" => result.error \in {InvalidInput, NoRegionsFound}
    /\ (result.kind = "raised" /\ result.error = InvalidInput) =>
          (~vision_response.present /\ tried = <<>>)
    /\ (dpc = "done" /\ ~vision_response.present) => result = RaisedValueError(InvalidInput)
    /\ dpc = "done" => result.kind # "pending"
    /\ \A i \in DOMAIN tried : tried[i].raised =>
          /\ tried[i].regions = <<>>
          /\ dpc = "done" =>
                LET called == {tried[j].strategy : j \in DOMAIN tried}
                IN  /\ vision_response.has_full_text_annotation => "structured" \in called
                    /\ ((\A j \in DOMAIN tried : ~Gave(tried[j]))
                            /\ vision_response.text_annotations # <<>>) => "flat" \in called
                    /\ result.kind = "returned" \/ result.error = NoRegionsFound

\* Smart detection and structured extraction both raised (the page has no
\* width to normalize against), flat extraction was called all the same and
\* detect_regions returned a list made of its regions.
TwoStrategiesRaisedFlatUsed ==
    /\ dpc = "done"
    /\ Len(tried) = 3
    /\ tried[1].raised
    /\ tried[2].raised
    /\ Gave(tried[3])
    /\ result.kind = "returned"

\* C13: for the receipt with the header "Joe's Diner" at y=0.02, the body
\* paragraphs "Burger" (y=0.40-0.42), "$8.99" (y=0.43-0.45) and "Tax $0.72",
\* and the footer "Thank you" at y=0.95, detect_regions returns exactly two
\* regions: the merged item "Burger $8.99", then the tax/tip region
\* "Tax $0.72"; no word of the header or the footer is in the output.
ReceiptGivesBurgerThenTax ==
    (dpc = "done" /\ vision_response = JoesDinerReceipt) =>
        /\ result.kind = "returned"
        /\ Len(result.regions) = 2
        /\ result.regions[1].text = <<"Burger", "$8.99">>
        /\ result.regions[1].bounding_box = BoundingBox(100, 400, 900, 450)
        /\ result.regions[2].text = <<"Tax", "$0.72">>
        /\ result.regions[2].bounding_box = BoundingBox(100, 500, 900, 520)
        /\ \A i \in DOMAIN result.regions :
              ~AnyWord(result.regions[i].text, {"Joe's", "Diner", "Thank", "you"})

\* detect_regions has returned for the receipt, on smart detection's list.
ReceiptDetected ==
    /\ dpc = "done"
    /\ vision_response = JoesDinerReceipt
    /\ Len(tried) = 1
    /\ Gave(tried[1])
    /\ result.kind = "returned"

----------------------------------------------------------------------------
(***************************************************************************)
(* Properties of the helpers.                                              *)
(***************************************************************************)
\* The paragraphs of a call, in the order detect_smart_regions works on.
SortedInput == SortByCenterY(input.region_list)

\* C12: the list detect_smart_regions gives is item regions followed by
\* tax/tip regions.  Its tail is exactly the paragraphs inside the body
\* band that pass the area and length rules and match a tax/tip pattern, in
\* their order, unmerged and unchanged; every region before the tail is a
\* paragraph that is not one of those or the merge of two such paragraphs;
\* and the sources of all output regions together are no more than the
\* paragraphs, so no paragraph is in an item region and in a tax/tip region.
ItemsThenTaxTip ==
    applied = "detect_smart_regions" =>
        LET s == SortedInput
            header_end_y == detect_header_boundary(s)
            footer_start_y == detect_footer_boundary(s)
            TaxTip(r) == InSmartBody(r, header_end_y, footer_start_y) /\ is_tax_tip_line(r.text)
            Other(r) == ~TaxTip(r)
            tax_tip == SelectSeq(s, TaxTip)
            others == SelectSeq(s, Other)
            k == Len(value) - Len(tax_tip)
            single == {others[i] : i \in DOMAIN others}
            merged == {MergedRegion(others[i], others[j]) :
                          i \in DOMAIN others, j \in DOMAIN others}
            sources == Cardinality({i \in 1..k : value[i] \in single})
                       + 2 * Cardinality({i \in 1..k : value[i] \notin single})
        IN  /\ k >= 0
            /\ SubSeq(value, k + 1, Len(value)) = tax_tip
            /\ \A i \in 1..k : value[i] \in single \cup merged
            /\ sources <= Len(others)

\* A tax/tip paragraph lies between a description and its price: the
\* output is the merged item, then the tax/tip region.
TaxTipMovedBehindMergedItem ==
    /\ applied = "detect_smart_regions"
    /\ Len(SortedInput) = 3
    /\ is_tax_tip_line(SortedInput[2].text)
    /\ value = <<MergedRegion(SortedInput[1], SortedInput[3]), SortedInput[2]>>

\* C14: for a non-empty vertex list with at least one x and one y
\* coordinate (negative ones and ones beyond the image included) and an
\* image size with both dimensions > 0, normalize_bounding_box returns a
\* box with 0 <= x_min <= x_max <= 1 and 0 <= y_min <= y_max <= 1.
NormalizedBoxInUnitSquare ==
    (/\ applied = "normalize_bounding_box"
     /\ input.vertices # <<>>
     /\ XCoords(input.vertices) # {}
     /\ YCoords(input.vertices) # {}
     /\ input.image_size[1] > 0
     /\ input.image_size[2] > 0) =>
        /\ ~value.raised
        /\ 0 <= value.value.x_min
        /\ value.value.x_min <= value.value.x_max
        /\ value.value.x_max <= Scale
        /\ 0 <= value.value.y_min
        /\ value.value.y_min <= value.value.y_max
        /\ value.value.y_max <= Scale

\* A polygon that starts left of and above the image and ends beyond it
\* was clamped on all four sides.
ClampedOnAllSides ==
    /\ applied = "normalize_bounding_box"
    /\ ~value.raised
    /\ SetMin(XCoords(input.vertices)) < 0
    /\ SetMin(YCoords(input.vertices)) < 0
    /\ SetMax(XCoords(input.vertices)) > input.image_size[1]
    /\ SetMax(YCoords(input.vertices)) > input.image_size[2]
    /\ value.value = BoundingBox(0, 0, Scale, Scale)

\* C15: normalize_bounding_box raises, and returns no box, exactly when
\* the vertex list is empty, or no vertex has an x coordinate, or no vertex
\* has a y coordinate, or the image width or height is <= 0; in every
\* other case it returns a box.
NormalizeRaisesExactlyOnInvalidGeometry ==
    applied = "normalize_bounding_box" =>
        /\ value.raised <=>
              \/ input.vertices = <<>>
              \/ XCoords(input.vertices) = {}
              \/ YCoords(input.vertices) = {}
              \/ input.image_size[1] <= 0
              \/ input.image_size[2] <= 0
        /\ value.raised => value.value = <<>>
        /\ ~value.raised => DOMAIN value.value = {"x_min", "y_min", "x_max", "y_max"}

\* The call raised for vertices that have x coordinates but no y coordinate.
RaisedForMissingY ==
    /\ applied = "normalize_bounding_box"
    /\ value.raised
    /\ input.image_size[1] > 0
    /\ input.image_size[2] > 0
    /\ XCoords(input.vertices) # {}
    /\ YCoords(input.vertices) = {}

\* C16: for every region list the header boundary of
\* _detect_header_boundary is <= 0.25 and the footer boundary of
\* _detect_footer_boundary is >= 0.75, so that the header boundary is
\* below the footer boundary; the footer boundary filter_item_regions
\* computes is <= 0.95.
BoundariesWithinCaps ==
    applied = "boundaries" =>
        /\ value.header_end_y <= HeaderBoundaryCap
        /\ value.footer_start_y >= FooterBoundaryCap
        /\ value.header_end_y < value.footer_start_y
        /\ value.filter_footer_start_y <= FilterFooterCap

\* The line before the first price ends below 0.25 and the last footer
\* line starts above 0.75: both limits replaced the detected value.
BothCapsApplied ==
    /\ applied = "boundaries"
    /\ PriceIndexes(SortedInput) # {}
    /\ SetMin(PriceIndexes(SortedInput)) > 1
    /\ SortedInput[SetMin(PriceIndexes(SortedInput)) - 1].bounding_box.y_max > HeaderBoundaryCap
    /\ value.header_end_y = HeaderBoundaryCap
    /\ FooterIndexes(SortedInput) # {}
    /\ SortedInput[SetMax(FooterIndexes(SortedInput))].bounding_box.y_min < FooterBoundaryCap
    /\ value.footer_start_y = FooterBoundaryCap
    /\ value.filter_footer_start_y < FilterDefaultFooter

\* C17: _group_multiline_items is order-preserving and non-overlapping.
\* Walking the output from left to right, each output region is either the
\* next input region unchanged or made of the next two input regions, the
\* walk uses every input region exactly once, and a region made of two has
\* their joined text and the geometric union of their boxes: the minimum
\* of both x_min and of both y_min, the maximum of both x_max and of both
\* y_max.
GroupingKeepsOrderAndUnitesBoxes ==
    applied = "group_multiline_items" =>
        LET s == SortedInput
            first[k \in 1..(Len(value) + 1)] ==
                IF k = 1 THEN 1
                ELSE IF first[k - 1] > Len(s) THEN first[k - 1]
                ELSE IF value[k - 1] = s[first[k - 1]] THEN first[k - 1] + 1
                ELSE first[k - 1] + 2
            Union(a, b) ==
                BoundingBox(Min2(a.x_min, b.x_min), Min2(a.y_min, b.y_min),
                            Max2(a.x_max, b.x_max), Max2(a.y_max, b.y_max))
        IN  /\ first[Len(value) + 1] = Len(s) + 1
            /\ \A k \in DOMAIN value :
                  /\ first[k] <= Len(s)
                  /\ \/ value[k] = s[first[k]]
                     \/ /\ first[k] < Len(s)
                        /\ value[k].text = JoinTexts(s[first[k]].text, s[first[k] + 1].text)
                        /\ value[k].bounding_box =
                              Union(s[first[k]].bounding_box, s[first[k] + 1].bounding_box)

\* A price was merged with the taller region after it, which starts above
\* it: the merged box starts at the price's y_min, below the top of the
\* second source.
MergedBoxStartsBelowItsSource ==
    /\ applied = "group_multiline_items"
    /\ Len(SortedInput) = 2
    /\ Len(value) = 1
    /\ SortedInput[2].bounding_box.y_min < SortedInput[1].bounding_box.y_min
    /\ value[1].bounding_box.y_min = SortedInput[1].bounding_box.y_min

\* C18: the area rule excludes a region only when its area is strictly
\* below 0.003 or strictly above 0.5.  A region of area exactly 0.003 or
\* exactly 0.5 that no other rule excludes is in the output of
\* detect_smart_regions (as it is, or as one half of a merged item) and in
\* the output of filter_item_regions.
AreaLimitsAreKept ==
    /\ applied = "detect_smart_regions" =>
          LET s == SortedInput
              header_end_y == detect_header_boundary(s)
              footer_start_y == detect_footer_boundary(s)
          IN  \A i \in DOMAIN s :
                (/\ area(s[i].bounding_box) \in {MinArea, MaxArea}
                 /\ center_y2(s[i].bounding_box) >= 2 * header_end_y
                 /\ center_y2(s[i].bounding_box) <= 2 * footer_start_y
                 /\ TextLen(s[i].text) > 1
                 /\ \/ is_tax_tip_line(s[i].text)
                    \/ has_price_pattern(s[i].text)
                    \/ is_likely_item_line(s[i].text)) =>
                    \E k \in DOMAIN value :
                        \/ value[k] = s[i]
                        \/ \E j \in DOMAIN s :
                              value[k] \in {MergedRegion(s[i], s[j]), MergedRegion(s[j], s[i])}
    /\ applied = "filter_item_regions" =>
          LET s == SortedInput
              header_end_y == filter_header_end_y(s)
              footer_start_y == filter_footer_start_y(s)
          IN  \A i \in DOMAIN s :
                (/\ area(s[i].bounding_box) \in {MinArea, MaxArea}
                 /\ center_y2(s[i].bounding_box) >= 2 * header_end_y
                 /\ center_y2(s[i].bounding_box) <= 2 * footer_start_y
                 /\ TextLen(s[i].text) > 1
                 /\ height(s[i].bounding_box) >= MinHeight
                 /\ ~header_patterns(s[i].text)
                 /\ ~footer_patterns(s[i].text)
                 /\ (has_price_pattern(s[i].text)
                        \/ (~only_numbers(s[i].text) /\ TextLen(s[i].text) >= MinTextLen))) =>
                    \E k \in DOMAIN value : value[k] = s[i]

\* The filter kept a region of area exactly 0.003 and one of area exactly
\* 0.5.
BothAreaLimitsKeptByFilter ==
    /\ applied = "filter_item_regions"
    /\ \E i \in DOMAIN value : area(value[i].bounding_box) = MinArea
    /\ \E j \in DOMAIN value : area(value[j].bounding_box) = MaxArea

FirstMatchingRuleDecides ==
    applied = "detect_smart_regions" =>
        LET s == SortedInput
            header_end_y == detect_header_boundary(s)
            footer_start_y == detect_footer_boundary(s)
            Decision(r) ==
                IF center_y2(r.bounding_box) < 2 * header_end_y THEN "discard"
                ELSE IF center_y2(r.bounding_box) > 2 * footer_start_y THEN "discard"
                ELSE IF area(r.bounding_box) < MinArea \/ area(r.bounding_box) > MaxArea
                THEN "discard"
                ELSE IF TextLen(r.text) <= 1 THEN "discard"
                ELSE IF is_tax_tip_line(r.text) THEN "tax_tip"
                ELSE IF has_price_pattern(r.text) \/ is_likely_item_line(r.text) THEN "item"
                ELSE "discard"
            IsItem(r) == Decision(r) = "item"
            IsTaxTip(r) == Decision(r) = "tax_tip"
            items == group_multiline_items(SelectSeq(s, IsItem), <<1000, 1000>>)
        IN  /\ value = items \o SelectSeq(s, IsTaxTip)
            /\ \A i \in DOMAIN s :
                  (Decision(s[i]) = "tax_tip" /\ has_price_pattern(s[i].text)) =>
                      /\ \E k \in (Len(items) + 1)..Len(value) : value[k] = s[i]
                      /\ \A k \in 1..Len(items) :
                            /\ value[k] # s[i]
                            /\ \A j \in DOMAIN s :
                                  value[k] \notin {MergedRegion(s[i], s[j]), MergedRegion(s[j], s[i])}
            /\ \A k \in DOMAIN value :
                  (\E i \in DOMAIN s : value[k] = s[i]) => Decision(value[k]) # "discard"

\* A line with a tax/tip word and a price came out last, as the tax/tip
\* region, behind an item, and a body region that fails every rule is
\* missing from the output.
TaxWithPriceIsTaxTipAndNoiseDropped ==
    /\ applied = "detect_smart_regions"
    /\ Len(value) = 2
    /\ ~is_tax_tip_line(value[1].text)
    /\ is_tax_tip_line(value[2].text)
    /\ has_price_pattern(value[2].text)
    /\ \E i \in DOMAIN SortedInput :
          /\ InSmartBody(SortedInput[i], detect_header_boundary(SortedInput),
                         detect_footer_boundary(SortedInput))
          /\ ~is_tax_tip_line(SortedInput[i].text)
          /\ ~has_price_pattern(SortedInput[i].text)
          /\ ~is_likely_item_line(SortedInput[i].text)
          /\ \A k \in DOMAIN value : value[k] # SortedInput[i]

\* C21: the footer boundary of filter_item_regions is decided by the first
\* region, going through the list sorted by center_y from the bottom up,
\* whose text matches a footer keyword: it is min(0.95, y_min of that
\* region) whatever matching regions lie above it, and the default 0.9
\* when no region matches.
FilterFooterIsFirstMatchFromBottom ==
    applied = "boundaries" =>
        LET s == SortedInput
            matches == {i \in DOMAIN s : filter_footer_keywords(s[i].text)}
        IN  value.filter_footer_start_y =
                IF matches = {} THEN FilterDefaultFooter
                ELSE Min2(FilterFooterCap, s[SetMax(matches)].bounding_box.y_min)

\* The lowest matching region starts at or below 0.9, a second match lies
\* above it, and the boundary is the y_min of the upper one.
FooterScanWentPastFirstMatch ==
    /\ applied = "boundaries"
    /\ \E i, j \in DOMAIN SortedInput :
          /\ i < j
          /\ filter_footer_keywords(SortedInput[i].text)
          /\ filter_footer_keywords(SortedInput[j].text)
          /\ \A k \in (j + 1)..Len(SortedInput) : ~filter_footer_keywords(SortedInput[k].text)
          /\ SortedInput[j].bounding_box.y_min >= FilterDefaultFooter
          /\ SortedInput[i].bounding_box.y_min < FilterDefaultFooter
          /\ value.filter_footer_start_y = SortedInput[i].bounding_box.y_min

\* C22: filter_item_regions only selects.  Its output is a subsequence of
\* its input regions put in ascending center_y order, every output region
\* being one input region with text, box and confidence unchanged (nothing
\* merged, nothing new), and the call leaves the caller's list and its
\* regions as they were.
FilterOnlySelects ==
    /\ [](applied = "filter_item_regions" =>
            LET s == SortedInput
                \* at[k]: the first position of s after at[k - 1] that holds value[k]
                at[k \in 0..Len(value)] ==
                    IF k = 0 THEN 0
                    ELSE LET later == {i \in (at[k - 1] + 1)..Len(s) : s[i] = value[k]}
                         IN  IF later = {} THEN Len(s) + 1 ELSE SetMin(later)
            IN  /\ at[Len(value)] <= Len(s)
                /\ \A k \in 1..(Len(value) - 1) :
                      center_y2(value[k].bounding_box) <= center_y2(value[k + 1].bounding_box))
    /\ [][applied' = "filter_item_regions" => input' = input]_vars

\* The filter was given a list that is not in center_y order and kept two
\* or more of its regions, dropping at least one.
FilterSelectedFromUnsortedList ==
    /\ applied = "filter_item_regions"
    /\ input.region_list # SortedInput
    /\ Len(value) >= 2
    /\ Len(value) < Len(input.region_list)
    /\ value[1] = input.region_list[Len(input.region_list)]

\* C23: in the flat extractor two tokens (annotations after the first
\* with a usable polygon) are in the same output region if and only if
\* floor(center_y / 10) is the same for both, negative centers included;
\* the output has exactly one region per non-empty bucket, in ascending
\* bucket order, and the first annotation gives no text to any region.
FlatLinesAreFloorBuckets ==
    (applied = "extract_regions_from_text_annotations" /\ ~value.raised) =>
        LET tokens == SelectSeq(Tail(input.text_annotations), HasLine)
            \* floor(center_y / 10): \div rounds down
            Bucket(a) == SumY(a.vertices) \div (CountY(a.vertices) * LineTolerance)
            buckets == {Bucket(tokens[i]) : i \in DOMAIN tokens}
            below(b) == Cardinality({c \in buckets : c < b})
        IN  /\ Len(value.value) = Cardinality(buckets)
            /\ \A b \in buckets :
                  LET in_line == {i \in DOMAIN tokens : Bucket(tokens[i]) = b}
                      text == value.value[below(b) + 1].text
                  IN  /\ Len(text) = Cardinality(in_line)
                      /\ {text[k] : k \in DOMAIN text} =
                            {tokens[i].description : i \in in_line}
            /\ \A k \in DOMAIN value.value :
                  ~AnyWord(value.value[k].text, {input.text_annotations[1].description})

\* A token centered above the top edge of the image and one centered below
\* it, less than 10 pixels from the edge each, came out as one line.
TokensAcrossZeroShareALine ==
    /\ applied = "extract_regions_from_text_annotations"
    /\ ~value.raised
    /\ Len(value.value) = 1
    /\ \E i, j \in 2..Len(input.text_annotations) :
          /\ HasLine(input.text_annotations[i])
          /\ HasLine(input.text_annotations[j])
          /\ SumY(input.text_annotations[i].vertices) < 0
          /\ SumY(input.text_annotations[j].vertices) > 0
          /\ value.value[1].text = <<input.text_annotations[i].description,
                                     input.text_annotations[j].description>>

\* C24, as stated: within detect_regions the flat extractor is called only
\* when the response has no structured tree (full_text_annotation).
FlatOnlyWithoutStructuredTree ==
    \A i \in DOMAIN tried :
        tried[i].strategy = "flat" => ~vision_response.has_full_text_annotation

\* C24, amended: the flat extractor is called exactly when the response
\* has a non-empty flat annotation list and no earlier strategy gave a
\* region, whether or not the response has a structured tree.
FlatOnlyWhenNothingFoundYet ==
    /\ \A i \in DOMAIN tried :
          tried[i].strategy = "flat" =>
              /\ i = Len(tried)
              /\ vision_response.text_annotations # <<>>
              /\ \A j \in 1..(i - 1) : ~Gave(tried[j])
    /\ (/\ dpc \in {"finish", "done"}
        /\ vision_response.present
        /\ vision_response.text_annotations # <<>>
        /\ \A j \in DOMAIN tried : tried[j].strategy # "flat" => ~Gave(tried[j])) =>
            \E i \in DOMAIN tried : tried[i].strategy = "flat"

\* The response has a structured tree, smart detection and structured
\* extraction gave nothing, and the flat extractor's regions were returned.
FlatUsedDespiteStructuredTree ==
    /\ dpc = "done"
    /\ vision_response.has_full_text_annotation
    /\ Len(tried) = 3
    /\ tried[3].strategy = "flat"
    /\ Gave(tried[3])
    /\ result.kind = "returned"

----------------------------------------------------------------------------
(***************************************************************************)
(* Further properties of the cache.                                        *)
(***************************************************************************)
\* C26, as stated: every put(k, v, ttl) with ttl >= 0 that returns leaves k
\* mapped to v in the store at that moment: the sweep of a put never
\* removes the entry this put has just written.
PutLeavesItsEntry ==
    (ret.op = "put" /\ ret.kind = "ok") =>
        /\ ret.key \in DOMAIN cache
        /\ cache[ret.key] = lastPut[ret.key]

\* C26, amended: when put(k, v, ttl) returns, k is mapped to v with the
\* expiry the put computed (clock at the call + ttl) if the clock its
\* sweep read is not past that expiry; if it is past it, the sweep has
\* removed the entry this put wrote and k is absent.
PutLeavesItsEntryUnlessExpired ==
    (ret.op = "put" /\ ret.kind = "ok") =>
        /\ ret.key \in DOMAIN lastPut
        /\ IF ret.clock > lastPut[ret.key].expiry_time
           THEN ret.key \notin DOMAIN cache
           ELSE ret.key \in DOMAIN cache /\ cache[ret.key] = lastPut[ret.key]

\* A put has returned and its key is not in the store.
PutSweptItsOwnEntry ==
    /\ ret.op = "put"
    /\ ret.kind = "ok"
    /\ ret.key \in DOMAIN ret.before
    /\ ret.key \notin DOMAIN cache

----------------------------------------------------------------------------
InSmartOutput(r, paragraphs, out) ==
    \E k \in DOMAIN out :
        \/ out[k] = r
        \/ \E j \in DOMAIN paragraphs :
              out[k] \in {MergedRegion(r, paragraphs[j]), MergedRegion(paragraphs[j], r)}

FirstPriceNotInHeader ==
    (applied = "detect_smart_regions" /\ PriceIndexes(SortedInput) # {}) =>
        LET first_price == SortedInput[SetMin(PriceIndexes(SortedInput))]
        IN  ~(center_y2(first_price.bounding_box) < 2 * detect_header_boundary(SortedInput))

\* The region before the first price ends below the center of the price:
\* the price, which passes every other rule, is missing from the output.
FirstPriceCutOffWithHeader ==
    /\ applied = "detect_smart_regions"
    /\ PriceIndexes(SortedInput) # {}
    /\ LET i == SetMin(PriceIndexes(SortedInput))
           first_price == SortedInput[i]
       IN  /\ i > 1
           /\ 2 * SortedInput[i - 1].bounding_box.y_max > center_y2(first_price.bounding_box)
           /\ InSmartBody(first_price, 0, detect_footer_boundary(SortedInput))
           /\ ~is_tax_tip_line(first_price.text)
           /\ ~InSmartOutput(first_price, SortedInput, value)

\* A step of get_cached_response(k) that ends the call.
GetReturns(k) == ret'.op = "get" /\ ret'.key = k

\* The step of cache_ocr_response(k, ...) that assigns _cache[k].
PutStores(k) ==
    \E t \in Threads :
        pc[t] = "put_lock" /\ pc'[t] = "cleanup" /\ frame[t].key = k

\* C30: reads never extend or alter an entry.  A get of an absent or
\* unexpired key leaves the whole store as it was, a get of an expired key
\* removes the entry of that key and nothing else, and get_cache_stats
\* changes nothing; a key gets an entry or another value or expiry time
\* only by a put of that key; an entry that has not expired is removed
\* only by clear_cache.
ReadsOnlyDropTheirExpiredKey ==
    [][ /\ \A k \in Keys \cup {""} :
            GetReturns(k) =>
                IF k \in DOMAIN cache /\ now > cache[k].expiry_time
                THEN /\ DOMAIN cache' = DOMAIN cache \ {k}
                     /\ \A x \in DOMAIN cache' : cache'[x] = cache[x]
                ELSE cache' = cache
        /\ ret'.op = "stats" => cache' = cache
        /\ \A k \in DOMAIN cache' :
            (k \notin DOMAIN cache \/ cache'[k] # cache[k]) => PutStores(k)
        /\ \A k \in DOMAIN cache \ DOMAIN cache' :
            ~(now > cache[k].expiry_time) => ret'.op = "clear"
      ]_vars

\* A get has just removed the expired entry of its key and returned None,
\* and the entry of the other key, which has not expired, is still there
\* as it was.
GetDroppedOnlyItsExpiredKey ==
    /\ ret.op = "get" /\ ret.kind = "None"
    /\ ret.key \in DOMAIN ret.before
    /\ ret.key \notin DOMAIN cache
    /\ \E other \in DOMAIN cache :
          /\ other # ret.key
          /\ cache[other] = ret.before[other]
          /\ ~(now > cache[other].expiry_time)

============================================================================
